---- MODULE Spec2Model ----
(***************************************************************************)
(* Model of the lab-record PDF generator (src/qpp5.py): the /api/generate- *)
(* pdf handler generate_pdf with its algorithm normalizer and section      *)
(* builder, the PushToBottomSpacer flowable, and the page-filling loop that *)
(* doc.build runs over the story.                                          *)
(*                                                                         *)
(* Text is a sequence of one-character strings.  Lengths are in hundredths *)
(* of a point (1 inch = 72 pt = 7200 units).                               *)
(***************************************************************************)
EXTENDS Integers, Sequences, FiniteSets, TLC

(***************************************************************************)
(* Python string primitives used by the handler.                           *)
(***************************************************************************)

\* Characters str.strip() and the regex class \s remove (the ASCII ones).
Whitespace == {" ", "\t", "\r", "\n"}

\* The regex class \d.
Digits == {"0", "1", "2", "3", "4", "5", "6", "7", "8", "9"}

\* The regex class [:\-\.] of the step-label and output-label patterns.
Separators == {":", "-", "."}

UpperAlphabet ==
    <<"A", "B", "C", "D", "E", "F", "G", "H", "I", "J", "K", "L", "M",
      "N", "O", "P", "Q", "R", "S", "T", "U", "V", "W", "X", "Y", "Z">>

LowerAlphabet ==
    <<"a", "b", "c", "d", "e", "f", "g", "h", "i", "j", "k", "l", "m",
      "n", "o", "p", "q", "r", "s", "t", "u", "v", "w", "x", "y", "z">>

DigitChar == <<"0", "1", "2", "3", "4", "5", "6", "7", "8", "9">>

\* The characters of a string.
Range(s) == {s[i] : i \in 1..Len(s)}

\* str.lower() on one character.
LowerChar(c) ==
    IF \E i \in 1..26 : UpperAlphabet[i] = c
    THEN LowerAlphabet[CHOOSE i \in 1..26 : UpperAlphabet[i] = c]
    ELSE c

\* str.lower().
Lower(s) == [i \in 1..Len(s) |-> LowerChar(s[i])]

\* `sub in s` for strings.
Contains(s, sub) ==
    \E i \in 0..(Len(s) - Len(sub)) : SubSeq(s, i + 1, i + Len(sub)) = sub

\* Index of the first character at or after i that is not in set (Len(s)+1 if none).
SkipWhile(s, i, set) ==
    CHOOSE j \in i..(Len(s) + 1) :
        /\ \A k \in i..(j - 1) : s[k] \in set
        /\ j = Len(s) + 1 \/ s[j] \notin set

\* str.strip(): leading and trailing whitespace removed.
Strip(s) ==
    LET first == SkipWhile(s, 1, Whitespace)
        last == IF first > Len(s) THEN 0
                ELSE CHOOSE j \in first..Len(s) :
                        /\ s[j] \notin Whitespace
                        /\ \A k \in (j + 1)..Len(s) : s[k] \in Whitespace
    IN  SubSeq(s, first, last)

\* str.split('\n'): the pieces between newlines, at least one piece.
RECURSIVE SplitLines(_)
SplitLines(s) ==
    LET i == SkipWhile(s, 1, Range(s) \ {"\n"})
    IN  IF i > Len(s) THEN <<s>>
        ELSE <<SubSeq(s, 1, i - 1)>> \o SplitLines(SubSeq(s, i + 1, Len(s)))

\* '\n'.join(lines).
RECURSIVE JoinLines(_)
JoinLines(lines) ==
    IF Len(lines) = 0 THEN <<>>
    ELSE IF Len(lines) = 1 THEN lines[1]
    ELSE lines[1] \o <<"\n">> \o JoinLines(Tail(lines))

\* str(n) for a natural number, as an f-string formats it.
RECURSIVE Str(_)
Str(n) ==
    IF n < 10 THEN <<DigitChar[n + 1]>>
    ELSE Str(n \div 10) \o <<DigitChar[(n % 10) + 1]>>

\* html.escape(c) for one character (quote=True, the default).
EscapeChar(c) ==
    CASE c = "&" -> <<"&", "a", "m", "p", ";">>
      [] c = "<" -> <<"&", "l", "t", ";">>
      [] c = ">" -> <<"&", "g", "t", ";">>
      [] c = "\"" -> <<"&", "q", "u", "o", "t", ";">>
      [] c = "'" -> <<"&", "#", "x", "2", "7", ";">>
      [] OTHER -> <<c>>

\* html.escape(s).
RECURSIVE HtmlEscape(_)
HtmlEscape(s) ==
    IF Len(s) = 0 THEN <<>> ELSE EscapeChar(Head(s)) \o HtmlEscape(Tail(s))

\* The markup line break.
Br == <<"<", "b", "r", "/", ">">>

\* str.replace('\n', '<br/>').
RECURSIVE ReplaceNewlines(_)
ReplaceNewlines(s) ==
    IF Len(s) = 0 THEN <<>>
    ELSE (IF Head(s) = "\n" THEN Br ELSE <<Head(s)>>) \o ReplaceNewlines(Tail(s))

\* JSON null (Python None) as a field value: a one-element sequence whose
\* element is not a character, so that it differs from every text.
None == <<"None">>

\* Python truthiness of a field value: None and "" are falsy.
Truthy(v) == v # None /\ Len(v) > 0

\* safe_text without html.escape: only the newlines are replaced.
safe_textUnescaped(text) ==
    IF ~Truthy(text) THEN <<>> ELSE ReplaceNewlines(text)

\* safe_text(text).
safe_text(text) ==
    IF ~Truthy(text) THEN <<>> ELSE ReplaceNewlines(HtmlEscape(text))

(***************************************************************************)
(* The algorithm processor of generate_pdf (the text normalizer).          *)
(***************************************************************************)

StepWord ==
    <<"s", "t", "e", "p">>

\* The label pattern without flags=re.IGNORECASE: only "step" in lower case
\* starts a label.
StepLabelLenCaseSensitive(line) ==
    LET afterStep == SkipWhile(line, 5, Whitespace)
        afterNum == SkipWhile(line, afterStep, Digits)
        sepAt == SkipWhile(line, afterNum, Whitespace)
        rest == SkipWhile(line, sepAt + 1, Whitespace)
    IN  IF /\ Len(line) >= 4
           /\ SubSeq(line, 1, 4) = StepWord
           /\ afterNum > afterStep
           /\ sepAt <= Len(line)
           /\ line[sepAt] \in Separators
        THEN rest - 1
        ELSE 0

\* Length of the prefix that re.sub(r'^step\s*\d+\s*[:\-\.]\s*', '', line,
\* flags=re.IGNORECASE) removes from line; 0 when the pattern does not match.
\* The classes \s, \d and [:\-\.] are pairwise disjoint, so the greedy match
\* is the only one.
StepLabelLen(line) ==
    LET afterStep == SkipWhile(line, 5, Whitespace)
        afterNum == SkipWhile(line, afterStep, Digits)
        sepAt == SkipWhile(line, afterNum, Whitespace)
        rest == SkipWhile(line, sepAt + 1, Whitespace)
    IN  IF /\ Len(line) >= 4
           /\ Lower(SubSeq(line, 1, 4)) = StepWord
           /\ afterNum > afterStep
           /\ sepAt <= Len(line)
           /\ line[sepAt] \in Separators
        THEN rest - 1
        ELSE 0

\* A label pattern that demands the label to be the whole line: nothing is
\* removed from a labelled step.
StripStepLabelNever(line) == Strip(line)

\* re.sub(...).strip() of an already stripped line: line_clean.
StripStepLabel(line) == Strip(SubSeq(line, StepLabelLen(line) + 1, Len(line)))

StartPhrase ==
    <<"s", "t", "a", "r", "t", " ", "t", "h", "e", " ", "p", "r", "o", "g", "r", "a", "m">>

StopPhrase ==
    <<"s", "t", "o", "p", " ", "t", "h", "e", " ", "p", "r", "o", "g", "r", "a", "m">>

\* The discard test on line_clean itself, without lower().
IsBoilerplateCaseSensitive(line_clean) ==
    Contains(line_clean, StartPhrase) \/ Contains(line_clean, StopPhrase)

\* The test that discards a line: "start the program" in lower_line or
\* "stop the program" in lower_line.
IsBoilerplate(line_clean) ==
    LET lower_line == Lower(line_clean)
    IN  Contains(lower_line, StartPhrase) \/ Contains(lower_line, StopPhrase)

\* The append test without the membership test: duplicates are kept.
IsNewLineNoDedupe(line_clean, processed) == Len(line_clean) > 0

\* The test that appends a line: line_clean and line_clean not in processed_lines.
IsNewLine(line_clean, processed) ==
    Len(line_clean) > 0 /\ \A i \in 1..Len(processed) : processed[i] # line_clean

\* The loop over alg_raw.split('\n'), from the accumulator processed.
RECURSIVE ProcessLines(_, _)
ProcessLines(lines, processed) ==
    IF Len(lines) = 0 THEN processed
    ELSE LET line == Strip(Head(lines))
             line_clean == StripStepLabel(line)
         IN  IF Len(line) = 0 THEN ProcessLines(Tail(lines), processed)
             ELSE IF IsBoilerplate(line_clean) THEN ProcessLines(Tail(lines), processed)
             ELSE IF IsNewLine(line_clean, processed)
                  THEN ProcessLines(Tail(lines), Append(processed, line_clean))
             ELSE ProcessLines(Tail(lines), processed)

\* processed_lines for the raw algorithm text.
ProcessedLines(alg_raw) == ProcessLines(SplitLines(alg_raw), <<>>)

StartLine ==
    <<"S", "t", "e", "p", " ", "1", ":", " ", "S", "t", "a", "r", "t", " ", "t", "h", "e", " ",
    "p", "r", "o", "g", "r", "a", "m">>

StepPrefix ==
    <<"S", "t", "e", "p", " ">>

StepColon ==
    <<":", " ">>

StopText ==
    <<"S", "t", "o", "p", " ", "t", "h", "e", " ", "p", "r", "o", "g", "r", "a", "m">>

\* Numbering that forgets the synthesized first step.
StepNumberFromOne(i) == i + 1

\* The number given to the step at (0-based) index i of processed_lines.
StepNumber(i) == i + 2

\* One iteration of the enumerate loop: f"Step {i+2}: {html.escape(line)}<br/>".
StepHtml(i, line) ==
    StepPrefix \o Str(StepNumber(i)) \o StepColon \o HtmlEscape(line) \o Br

RECURSIVE StepsHtml(_, _)
StepsHtml(processed, i) ==
    IF i >= Len(processed) THEN <<>>
    ELSE StepHtml(i, processed[i + 1]) \o StepsHtml(processed, i + 1)

\* An output that is empty when no line was kept, so that `if alg_html`
\* skips the section.
AlgHtmlEmptyWithoutLines(processed) ==
    IF Len(processed) = 0 THEN <<>>
    ELSE StartLine \o Br \o StepsHtml(processed, 0)
             \o StepPrefix \o Str(Len(processed) + 2) \o StepColon \o StopText

\* alg_html for processed_lines.
AlgHtml(processed) ==
    StartLine \o Br \o StepsHtml(processed, 0)
        \o StepPrefix \o Str(Len(processed) + 2) \o StepColon \o StopText

(***************************************************************************)
(* The record (request.json) and the blocks of the story.                  *)
(***************************************************************************)

\* The ten fields of a record.  A record is a function from the keys that
\* are present to their values (a text, or None for JSON null).
FieldNames ==
    {"name", "regNo", "expNo", "date", "title",
     "aim", "algorithm", "program", "output", "result"}

\* data.get(key, default).
Get(d, key, default) == IF key \in DOMAIN d THEN d[key] ELSE default

\* data.get(key): None when the key is absent.
GetOrNone(d, key) == Get(d, key, None)

\* A flowable of the story.  Every block has the same fields: text and style
\* for a Paragraph, content for a Table (its cells), a KeepTogether (its
\* flowables) or a PushToBottomSpacer (elements_to_push), height for a Spacer,
\* and the _postponed mark the page-filling loop sets.
Paragraph(text, style) ==
    [type |-> "Paragraph", style |-> style, text |-> text,
     content |-> <<>>, height |-> 0, postponed |-> FALSE]

Spacer(height) ==
    [type |-> "Spacer", style |-> "", text |-> <<>>,
     content |-> <<>>, height |-> height, postponed |-> FALSE]

Table(cells) ==
    [type |-> "Table", style |-> "", text |-> <<>>,
     content |-> cells, height |-> 0, postponed |-> FALSE]

KeepTogether(flowables) ==
    [type |-> "KeepTogether", style |-> "", text |-> <<>>,
     content |-> flowables, height |-> 0, postponed |-> FALSE]

PushToBottomSpacer(elements_to_push) ==
    [type |-> "PushToBottomSpacer", style |-> "", text |-> <<>>,
     content |-> elements_to_push, height |-> 0, postponed |-> FALSE]

\* 1 inch (reportlab.lib.units.inch, 72 pt) in hundredths of a point.
Inch == 7200

(***************************************************************************)
(* The section builder of generate_pdf.                                    *)
(***************************************************************************)

AimHeading ==
    <<"<", "b", ">", "A", "I", "M", " ", ":", "<", "/", "b", ">">>

AlgorithmHeading ==
    <<"<", "b", ">", "A", "L", "G", "O", "R", "I", "T", "H", "M", " ", ":", "<", "/", "b", ">">>

ProgramHeading ==
    <<"<", "b", ">", "P", "R", "O", "G", "R", "A", "M", " ", ":", "<", "/", "b", ">">>

OutputHeading ==
    <<"<", "b", ">", "O", "U", "T", "P", "U", "T", " ", ":", "<", "/", "b", ">">>

ResultHeading ==
    <<"<", "b", ">", "R", "E", "S", "U", "L", "T", " ", ":", "<", "/", "b", ">">>

Indent ==
    <<"&", "n", "b", "s", "p", ";", "&", "n", "b", "s", "p", ";", "&", "n", "b", "s", "p", ";",
    "&", "n", "b", "s", "p", ";", "&", "n", "b", "s", "p", ";">>

DatePlaceholder ==
    <<"&", "n", "b", "s", "p", ";", "&", "n", "b", "s", "p", ";", "&", "n", "b", "s", "p", ";",
    "&", "n", "b", "s", "p", ";", "&", "n", "b", "s", "p", ";", "&", "n", "b", "s", "p", ";",
    "&", "n", "b", "s", "p", ";", "&", "n", "b", "s", "p", ";", "&", "n", "b", "s", "p", ";",
    "&", "n", "b", "s", "p", ";">>

ExpNoLabel ==
    <<"E", "x", "p", ".", "n", "o", " ", ":", " ">>

DateLabel ==
    <<"D", "a", "t", "e", " ", "&", "n", "b", "s", "p", ";", "&", "n", "b", "s", "p", ";", "&",
    "n", "b", "s", "p", ";", ":", " ">>

DefaultTitle ==
    <<"E", "X", "P", "E", "R", "I", "M", "E", "N", "T">>

OutputWord ==
    <<"o", "u", "t", "p", "u", "t">>

\* date_str: the escaped date, stripped, or ten non-breaking spaces.
DateStr(d) ==
    LET date_str == Strip(safe_text(Get(d, "date", <<>>)))
    IN  IF Len(date_str) = 0 THEN DatePlaceholder ELSE date_str

\* header_data: the three paragraphs of the header table (its fourth cell
\* is the empty string), in the order expNo, title, date.
HeaderCells(d) ==
    << Paragraph(ExpNoLabel \o safe_text(Get(d, "expNo", <<>>)), "TLeft"),
       Paragraph(safe_text(Get(d, "title", DefaultTitle)), "TCenter"),
       Paragraph(DateLabel \o DateStr(d), "TLeft") >>

\* The fixed gap under the header table: Spacer(1, 0.2 * inch).
HeaderGap == 1440

\* The head of the story: header_table and the spacer.
HeaderBlocks(d) == << Table(HeaderCells(d)), Spacer(HeaderGap) >>

\* The aim section without its `if`: emitted for every record.
AimBlocksAlways(d) ==
    << Paragraph(AimHeading, "Heading"),
       Paragraph(Indent \o safe_text(GetOrNone(d, "aim")), "Body") >>

\* if data.get('aim'): heading and indented body.
AimBlocks(d) ==
    IF Truthy(GetOrNone(d, "aim"))
    THEN << Paragraph(AimHeading, "Heading"),
            Paragraph(Indent \o safe_text(GetOrNone(d, "aim")), "Body") >>
    ELSE <<>>

\* if alg_html: heading and body (alg_html is never the empty string).
AlgorithmBlocks(alg_html) ==
    IF Len(alg_html) > 0
    THEN << Paragraph(AlgorithmHeading, "Heading"), Paragraph(alg_html, "Body") >>
    ELSE <<>>

\* The threshold of `if prog_lines < 15`.
KeepProgramBelow == 15

\* prog_lines = len(data.get('program', '').split('\n')).
ProgLines(program) == Len(SplitLines(program))

\* if data.get('program'): the pair, kept together when it is short.
ProgramBlocks(d) ==
    IF Truthy(GetOrNone(d, "program"))
    THEN LET program_elements ==
                 << Paragraph(ProgramHeading, "Heading"),
                    Paragraph(safe_text(GetOrNone(d, "program")), "Body") >>
         IN  IF ProgLines(Get(d, "program", <<>>)) < KeepProgramBelow
             THEN << KeepTogether(program_elements) >>
             ELSE program_elements
    ELSE <<>>

\* The output pattern without flags=re.IGNORECASE: only "output" in lower
\* case is a label.
OutputLabelLenCaseSensitive(out_raw) ==
    LET wordAt == SkipWhile(out_raw, 1, Whitespace)
        afterWord == SkipWhile(out_raw, wordAt + 6, Whitespace)
        afterSep == SkipWhile(out_raw, afterWord, Separators)
        rest == SkipWhile(out_raw, afterSep, Whitespace)
    IN  IF /\ wordAt + 5 <= Len(out_raw)
           /\ SubSeq(out_raw, wordAt, wordAt + 5) = OutputWord
        THEN rest - 1
        ELSE 0

\* Length of the prefix that re.sub(r'^\s*output\s*[:\-\.]*\s*', '', out_raw,
\* flags=re.IGNORECASE) removes; 0 when the pattern does not match.
OutputLabelLen(out_raw) ==
    LET wordAt == SkipWhile(out_raw, 1, Whitespace)
        afterWord == SkipWhile(out_raw, wordAt + 6, Whitespace)
        afterSep == SkipWhile(out_raw, afterWord, Separators)
        rest == SkipWhile(out_raw, afterSep, Whitespace)
    IN  IF /\ wordAt + 5 <= Len(out_raw)
           /\ Lower(SubSeq(out_raw, wordAt, wordAt + 5)) = OutputWord
        THEN rest - 1
        ELSE 0

\* out_clean for the output field.
OutClean(output) ==
    LET out_raw == Strip(output)
    IN  SubSeq(out_raw, OutputLabelLen(out_raw) + 1, Len(out_raw))

\* if data.get('output'): heading and terminal-style body.
OutputBlocks(d) ==
    IF Truthy(GetOrNone(d, "output"))
    THEN << Paragraph(OutputHeading, "Heading"),
            Paragraph(safe_text(OutClean(Get(d, "output", <<>>))), "TurboC") >>
    ELSE <<>>

\* result_block: heading and indented body.
ResultBlock(d) ==
    << Paragraph(ResultHeading, "Heading"),
       Paragraph(Indent \o safe_text(GetOrNone(d, "result")), "Body") >>

\* The result group appended before the spacer that is to push it down.
ResultBlocksGroupFirst(d) ==
    IF Truthy(GetOrNone(d, "result"))
    THEN << KeepTogether(ResultBlock(d)), PushToBottomSpacer(ResultBlock(d)) >>
    ELSE <<>>

\* if data.get('result'): the spacer that measures result_block, then
\* result_block kept together.
ResultBlocks(d) ==
    IF Truthy(GetOrNone(d, "result"))
    THEN << PushToBottomSpacer(ResultBlock(d)), KeepTogether(ResultBlock(d)) >>
    ELSE <<>>

\* alg_raw.split raises AttributeError when the algorithm field is null.
BuildRaises(d) == Get(d, "algorithm", <<>>) = None

\* The story as generate_pdf appends it, up to the call of doc.build.
BuildStory(d) ==
    HeaderBlocks(d)
        \o AimBlocks(d)
        \o AlgorithmBlocks(AlgHtml(ProcessedLines(Get(d, "algorithm", <<>>))))
        \o ProgramBlocks(d)
        \o OutputBlocks(d)
        \o ResultBlocks(d)

(***************************************************************************)
(* Measuring flowables.  A paragraph's lines are those its explicit line   *)
(* breaks make (every line is short enough to fit the frame's width), so   *)
(* the height its wrap reports is its line count times its style's leading.*)
(***************************************************************************)

\* leading of the styles generate_pdf defines (Heading inherits the 18 pt of
\* the sample stylesheet's Heading2).
Leading(style) ==
    CASE style = "Heading" -> 1800
      [] style = "Body" -> 2200
      [] style = "TurboC" -> 1600
      [] style = "TLeft" -> 1600
      [] style = "TCenter" -> 1800

\* spaceBefore of the styles.
StyleSpaceBefore(style) ==
    CASE style = "Heading" -> 1800
      [] style = "TurboC" -> 1000
      [] OTHER -> 0

\* spaceAfter of the styles.
StyleSpaceAfter(style) ==
    CASE style = "Heading" -> 1200
      [] style = "Body" -> 1200
      [] style = "TurboC" -> 2000
      [] OTHER -> 0

\* The pieces of a markup text between its <br/> line breaks: from[i] is
\* the pieces of the text from position i on.
SplitBr(text) ==
    LET from[i \in 1..(Len(text) + 1)] ==
            IF \E j \in i..(Len(text) - 4) : SubSeq(text, j, j + 4) = Br
            THEN LET j == CHOOSE j \in i..(Len(text) - 4) :
                              /\ SubSeq(text, j, j + 4) = Br
                              /\ \A k \in i..(j - 1) : SubSeq(text, k, k + 4) # Br
                 IN  <<SubSeq(text, i, j - 1)>> \o from[j + 5]
            ELSE <<SubSeq(text, i, Len(text))>>
    IN  from[1]

\* The pieces joined by <br/> again.
RECURSIVE JoinBr(_)
JoinBr(lines) ==
    IF Len(lines) = 0 THEN <<>>
    ELSE IF Len(lines) = 1 THEN lines[1]
    ELSE lines[1] \o Br \o JoinBr(Tail(lines))

\* Number of lines a paragraph of this text is laid out in.
LineCount(text) == Len(SplitBr(text))

\* Paragraph.wrap: the height of a paragraph.
ParagraphHeight(f) == LineCount(f.text) * Leading(f.style)

\* TOPPADDING plus BOTTOMPADDING of the header table's cells (5 pt each).
CellPadding == 1000

\* Table.wrap: the two rows of the header table, each as high as its
\* left cell (the title cell spans both rows).
TableHeight(f) ==
    (ParagraphHeight(f.content[1]) + CellPadding)
        + (ParagraphHeight(f.content[3]) + CellPadding)

\* The buffer of PushToBottomSpacer.wrap: 0.05 * inch.
SafetyMargin == 360

\* What PushToBottomSpacer.wrap asks for beyond availHeight to force a page
\* break: 10 pt.
OverflowBy == 1000

\* The sum h of the heights el.wrap reports for the elements to push.
RECURSIVE ElementsHeight(_)
ElementsHeight(elements) ==
    IF Len(elements) = 0 THEN 0
    ELSE ParagraphHeight(Head(elements)) + ElementsHeight(Tail(elements))

\* total_needed of PushToBottomSpacer.wrap.
TotalNeeded(elements) == ElementsHeight(elements) + SafetyMargin

\* The comparison with <= : a block that fits exactly is sent to the next page.
PushHeightExactFitBreaks(elements, availHeight) ==
    IF availHeight <= TotalNeeded(elements)
    THEN availHeight + OverflowBy
    ELSE availHeight - TotalNeeded(elements)

\* self.height as PushToBottomSpacer.wrap sets it.
PushHeight(elements, availHeight) ==
    IF availHeight < TotalNeeded(elements)
    THEN availHeight + OverflowBy
    ELSE availHeight - TotalNeeded(elements)

\* PushToBottomSpacer.wrap(availWidth, availHeight): (availWidth, self.height).
PushToBottomSpacerWrap(elements, availWidth, availHeight) ==
    <<availWidth, PushHeight(elements, availHeight)>>

\* The height KeepTogether.wrap reports to force its split: 0xffffff pt.
ForceSplit == 1677721500

\* The width of the frame: A4 width less the two 0.6 inch margins and the
\* frame's 6 pt paddings.
FrameWidth == 49688

\* flowable.wrap(availWidth, availHeight)[1] for the flowables of a story.
WrapHeight(f, availHeight) ==
    CASE f.type = "Paragraph" -> ParagraphHeight(f)
      [] f.type = "Spacer" -> f.height
      [] f.type = "Table" -> TableHeight(f)
      [] f.type = "PushToBottomSpacer" ->
            PushToBottomSpacerWrap(f.content, FrameWidth, availHeight)[2]
      [] f.type = "KeepTogether" -> ForceSplit

\* getSpaceBefore(): a paragraph's style, a container's first flowable.
SpaceBefore(f) ==
    CASE f.type = "Paragraph" -> StyleSpaceBefore(f.style)
      [] f.type = "KeepTogether" -> StyleSpaceBefore(f.content[1].style)
      [] OTHER -> 0

\* getSpaceAfter(): a paragraph's style, a container's last flowable.
SpaceAfter(f) ==
    CASE f.type = "Paragraph" -> StyleSpaceAfter(f.style)
      [] f.type = "KeepTogether" -> StyleSpaceAfter(f.content[Len(f.content)].style)
      [] OTHER -> 0

Max(a, b) == IF a > b THEN a ELSE b

\* The height KeepTogether measures for its content: the heights of the
\* flowables and the spaces between them, adjacent spaces overlapping;
\* without the space before the first and after the last.
RECURSIVE ListHeight(_, _, _)
ListHeight(content, first, prevSpace) ==
    IF Len(content) = 0 THEN 0
    ELSE LET f == Head(content)
             before == IF first THEN 0 ELSE Max(SpaceBefore(f) - prevSpace, 0)
             after == IF Len(content) = 1 THEN 0 ELSE SpaceAfter(f)
         IN  before + ParagraphHeight(f) + after
                 + ListHeight(Tail(content), FALSE, SpaceAfter(f))

(***************************************************************************)
(* The records the model generates documents for.                          *)
(***************************************************************************)

\* Lines an algorithm text is made of: blank, labelled in several spellings,
\* duplicates after cleaning, boilerplate, and text that html.escape changes.
AlgLineSamples ==
    {
      <<>>,
      <<" ", " ">>,
      <<"R", "e", "a", "d", " ", "a">>,
      <<"S", "t", "e", "p", " ", "1", ":", " ", "R", "e", "a", "d", " ", "a">>,
      <<"S", "T", "E", "P", " ", "2", " ", "-", " ", "r", "e", "a", "d", " ", "a">>,
      <<"s", "t", "e", "p", " ", "3", " ", "R", "e", "a", "d", " ", "a">>,
      <<"S", "t", "e", "p", " ", "1", ":", " ", "S", "t", "a", "r", "t", " ", "t", "h", "e", " ", "p", "r", "o", "g", "r", "a", "m">>,
      <<"N", "o", "w", " ", "S", "T", "O", "P", " ", "T", "H", "E", " ", "P", "R", "O", "G", "R", "A", "M", ".">>,
      <<"c", " ", "=", " ", "a", " ", "&", " ", "b">>,
      <<"i", "f", " ", "a", "<", "b", ">", "c", " ", "\"", "d", "\"", " ", "'", "e", "'">>,
      <<"S", "t", "e", "p", " ", "1", ":", " ", "R", "e", "a", "d", " ", "a", " ", "a", "n", "d", " ", "b">>,
      <<"S", "t", "e", "p", " ", "2", ":", " ", "P", "r", "i", "n", "t", " ", "s", "u", "m">>,
      <<"S", "t", "e", "p", " ", "4", ".">>,
      <<" ", "S", "t", "e", "p", " ", "5", " ", ".", " ", "P", "r", "i", "n", "t", " ", "s", "u", "m", " ", "\r">>,
      <<"s", "t", "a", "r", "t", " ", " ", "t", "h", "e", " ", "p", "r", "o", "g", "r", "a", "m">>,
      <<"S", "t", "e", "p", " ", "1", ":", " ", "S", "t", "e", "p", " ", "2", ":", " ", "R", "e", "a", "d", " ", "a">>
    }

\* Largest number of lines of an algorithm text.
MaxAlgLines == 2

\* The algorithm texts: up to MaxAlgLines sample lines joined by newlines.
AlgTexts ==
    { JoinLines(ls) : ls \in UNION { [1..n -> AlgLineSamples] : n \in 0..MaxAlgLines } }

ProgramLine ==
    <<"x", ";">>

\* A text of n program lines, each ended by a newline.
RECURSIVE LinesEnded(_, _)
LinesEnded(line, n) == IF n = 0 THEN <<>> ELSE line \o <<"\n">> \o LinesEnded(line, n - 1)

\* A text of n >= 1 lines, the last one without a newline.
LinesOf(line, n) == LinesEnded(line, n - 1) \o line

\* Largest number of lines of a program text.
MaxProgLines == 24

\* The program texts: 1..MaxProgLines lines, with and without a final newline.
ProgramTexts ==
    { LinesOf(ProgramLine, n) : n \in 1..MaxProgLines }
        \cup { LinesEnded(ProgramLine, n) : n \in 1..MaxProgLines }

ResultSample ==
    <<"P", "r", "o", "g", "r", "a", "m", " ", "e", "x", "e", "c", "u", "t", "e", "d", " ", "s",
    "u", "c", "c", "e", "s", "s", "f", "u", "l", "l", "y">>

ResultLine ==
    <<"o", "k">>

\* Number of lines of the longest result text (taller than a page).
MaxResultLines == 33

\* The result texts: the sample, two lines, and MaxResultLines lines.
ResultTexts ==
    { ResultSample, LinesOf(ResultLine, 2), LinesOf(ResultLine, MaxResultLines) }

\* Output texts: empty, blank, labelled, label-like, label only, to be escaped.
OutputTexts ==
    {
      <<>>,
      <<" ">>,
      <<"O", "U", "T", "P", "U", "T", ":", " ", "H", "e", "l", "l", "o", " ", "W", "o", "r", "l", "d">>,
      <<"O", "u", "t", "p", "u", "t", "s", " ", "a", "r", "e", " ", "5">>,
      <<"o", "u", "t", "p", "u", "t">>,
      <<"a", "<", "b", "\n", "1", " ", "&", " ", "2">>,
      <<"S", "u", "m", " ", "=", " ", "5", "\n">>,
      <<"O", "u", "t", "p", "u", "t", " ", ":", "-", " ", "5">>
    }

\* Aim texts.
AimTexts ==
    {
      <<>>,
      <<"X">>,
      <<"T", "o", " ", "a", "d", "d", " ", "<", "a", ">", " ", "&", " ", "b", "\n", "u", "s", "i", "n", "g", " ", "C">>
    }

\* Titles.
TitleTexts ==
    {
      <<>>,
      <<"S", "u", "m", " ", "o", "f", " ", "T", "w", "o", " ", "N", "u", "m", "b", "e", "r", "s">>,
      <<"A", "&", "B">>
    }

\* Dates.
DateTexts ==
    {
      <<>>,
      <<" ", " ">>,
      <<" ", "\n">>,
      <<"0", "1", "-", "0", "1", "-", "2", "0", "2", "5">>,
      <<" ", "5", "<", "6", " ", "\n", "7", " ">>
    }

\* Experiment numbers.
ExpNoTexts ==
    {
      <<>>,
      <<"1">>,
      <<"1", "&", "2">>
    }

\* A program and a result with characters that html.escape rewrites.
MarkupProgram ==
    <<"i", "f", " ", "(", "a", "<", "b", ")", "\n", "x", " ", "&", "=", " ", "1", ";">>

MarkupOutputText ==
    <<"a", "<", "b", "\n", "1", " ", "&", " ", "2">>

MarkupResult ==
    <<"a", " ", ">", " ", "b", "\n", "i", "s", " ", "\"", "t", "r", "u", "e", "\"">>

\* The record of a form with only the title and a two-line algorithm filled in.
BaseRecord ==
    [ name |-> <<>>, regNo |-> <<>>, expNo |-> <<>>, date |-> <<>>,
      title |-> <<"S", "u", "m", " ", "o", "f", " ", "T", "w", "o", " ", "N", "u", "m", "b", "e", "r", "s">>,
      aim |-> <<>>,
      algorithm |-> <<"S", "t", "e", "p", " ", "1", ":", " ", "R", "e", "a", "d", " ", "a", " ", "a", "n", "d", " ", "b", "\n", "S", "t", "e", "p", " ", "2", ":", " ", "P", "r", "i", "n", "t", " ", "s", "u", "m">>,
      program |-> <<>>, output |-> <<>>, result |-> <<>> ]

\* The record d with the fields of upd (a function from keys to values) set.
With(d, upd) ==
    [k \in DOMAIN d \cup DOMAIN upd |-> IF k \in DOMAIN upd THEN upd[k] ELSE d[k]]

\* The record d without the keys in keys.
Without(d, keys) == [k \in DOMAIN d \ keys |-> d[k]]

\* The values a field takes: present with a text of texts, null, or absent.
\* Absent is chosen by the marker Missing in the field's place.
Missing == <<"Missing">>

\* The record made from BaseRecord by the choice c (a function from keys to
\* a text, None or Missing).
RecordOf(c) ==
    Without(With(BaseRecord, c), {k \in DOMAIN c : c[k] = Missing})

\* Second lines of the two-line algorithm texts of the records.
SecondLineSamples ==
    {
      <<>>,
      <<"c", " ", "=", " ", "a", " ", "&", " ", "b">>,
      <<"S", "t", "e", "p", " ", "2", ":", " ", "P", "r", "i", "n", "t", " ", "s", "u", "m">>
    }

\* The algorithm texts of the records: every sample line alone and followed
\* by a second line.
RecordAlgTexts ==
    AlgLineSamples
        \cup { JoinLines(<<a, b>>) : a \in AlgLineSamples, b \in SecondLineSamples }

\* Records that vary the algorithm.
AlgRecords ==
    { RecordOf([algorithm |-> a]) : a \in RecordAlgTexts \cup {None, Missing} }

\* Records that vary which sections are filled in.
SectionRecords ==
    { RecordOf([aim |-> a, program |-> p, output |-> o, result |-> r]) :
        a \in AimTexts \cup {None, Missing},
        p \in {<<>>, ProgramLine, MarkupProgram, Missing},
        o \in OutputTexts \cup {Missing},
        r \in {<<>>, ResultSample, MarkupResult, Missing} }

\* Records that vary how full the pages are.
LayoutRecords ==
    { RecordOf([program |-> p, output |-> o, result |-> r]) :
        p \in ProgramTexts \cup {<<>>},
        o \in {<<>>, <<"O", "U", "T", "P", "U", "T", ":", " ", "H", "e", "l", "l", "o", " ", "W", "o", "r", "l", "d">>},
        r \in ResultTexts \cup {<<>>} }

\* Records that vary the header fields.
HeaderRecords ==
    { RecordOf([title |-> t, date |-> dt, expNo |-> e]) :
        t \in TitleTexts \cup {None, Missing},
        dt \in DateTexts \cup {Missing},
        e \in ExpNoTexts \cup {Missing} }

Records == AlgRecords \cup SectionRecords \cup LayoutRecords \cup HeaderRecords

(***************************************************************************)
(* The state: one request to /api/generate-pdf, from its record to its     *)
(* response.                                                               *)
(***************************************************************************)

VARIABLES
    pc,                 \* "idle", "build" (inside doc.build), "done", "failed"
    data,               \* request.json
    processed_lines,    \* the normalizer's kept lines
    alg_html,           \* the normalizer's output
    story,              \* the blocks handed to doc.build
    flowables,          \* the blocks doc.build has yet to place
    page,               \* the page being filled (0 before doc.build)
    frameLeft,          \* the frame's height left under the last flowable
    atTop,              \* nothing has been placed in the frame yet
    prevASpace,         \* the space after the last flowable placed
    placed,             \* what was drawn: block, page, height above the frame's bottom
    wrapCall,           \* the last call of PushToBottomSpacer.wrap and what it returned
    response,           \* the JSON answer
    logo_exists,        \* os.path.exists(LOGO_PATH)
    decorations,        \* what draw_decorations drew, page by page
    previous,           \* the outcome of the same request made before, if any
    suspended           \* the locals of the other request in service, if any

vars ==
    << pc, data, processed_lines, alg_html, story, flowables, page,
       frameLeft, atTop, prevASpace, placed, wrapCall, response,
       logo_exists, decorations, previous, suspended >>

\* A4[1], the page height (297 mm).
PageHeight == 84189

\* margin_top and margin_bottom: 0.8 * inch.
MarginY == 5760

\* The padding a Frame keeps at its top and at its bottom (6 pt).
FramePadding == 600

\* The height of the frame of every page.
FrameHeight == PageHeight - 2 * MarginY - 2 * FramePadding

\* No answer yet.
NoResponse == [status |-> 0, body |-> <<>>]

\* No request before this one.
NoRun ==
    [ran |-> FALSE, logo_exists |-> FALSE, story |-> <<>>, placed |-> <<>>,
     decorations |-> <<>>, response |-> NoResponse]

NameLabel ==
    <<"N", "a", "m", "e", " ", ":", " ">>

RegNoLabel ==
    <<"R", "e", "g", " ", "n", "o", " ", ":", " ">>

FooterText ==
    <<"2", "2", "U", "C", "S", "2", "0", "2", " ", "-", " ", "C", " ", "P", "r", "o", "g", "r",
    "a", "m", "m", "i", "n", "g">>

NoneText ==
    <<"N", "o", "n", "e">>

\* What an f-string puts for a value: the text itself, "None" for null.
Format(v) == IF v = None THEN NoneText ELSE v

\* One drawing call on the canvas.
Draw(op, text) == [op |-> op, text |-> text]

\* draw_decorations without the os.path.exists test: the image is drawn
\* whether or not the file is there.
DrawDecorationsUnchecked(d, exists) ==
    << Draw("drawString", NameLabel \o Format(Get(d, "name", <<>>))),
       Draw("drawRightString", RegNoLabel \o Format(Get(d, "regNo", <<>>))),
       Draw("rect", <<>>),
       Draw("drawRightString", FooterText),
       Draw("drawImage", <<>>) >>

\* draw_decorations for the record d: name and register number, border,
\* footer, and the watermark image when the file exists.
DrawDecorations(d, exists) ==
    << Draw("drawString", NameLabel \o Format(Get(d, "name", <<>>))),
       Draw("drawRightString", RegNoLabel \o Format(Get(d, "regNo", <<>>))),
       Draw("rect", <<>>),
       Draw("drawRightString", FooterText) >>
        \o (IF exists THEN << Draw("drawImage", <<>>) >> ELSE <<>>)

\* No call of PushToBottomSpacer.wrap yet.
NoCall ==
    [called |-> FALSE, elements |-> <<>>, availWidth |-> 0, availHeight |-> 0,
     width |-> 0, height |-> 0]

\* The call wrap(aW, aH) of the spacer for elements, with the pair it returns.
WrapCall(elements, aW, aH) ==
    LET r == PushToBottomSpacerWrap(elements, aW, aH)
    IN  [called |-> TRUE, elements |-> elements, availWidth |-> aW,
         availHeight |-> aH, width |-> r[1], height |-> r[2]]

\* Nothing requested yet.
Idle ==
    /\ pc = "idle"
    /\ data = <<>>
    /\ processed_lines = <<>>
    /\ alg_html = <<>>
    /\ story = <<>>
    /\ flowables = <<>>
    /\ page = 0
    /\ frameLeft = 0
    /\ atTop = TRUE
    /\ prevASpace = 0
    /\ placed = <<>>
    /\ wrapCall = NoCall
    /\ response = NoResponse
    /\ decorations = <<>>
    /\ previous = NoRun

\* The locals of a call of generate_pdf before its first statement.
IdleLocals ==
    [pc |-> "idle", data |-> <<>>, processed_lines |-> <<>>, alg_html |-> <<>>,
     story |-> <<>>, flowables |-> <<>>, page |-> 0, frameLeft |-> 0,
     atTop |-> TRUE, prevASpace |-> 0, placed |-> <<>>, wrapCall |-> NoCall,
     response |-> NoResponse, decorations |-> <<>>]

\* One request in service and no other.
NoOther ==
    [phase |-> "single", self |-> 1, locals |-> IdleLocals, outcomes |-> <<>>,
     overlapped |-> FALSE]

\* The application as it is installed, its watermark file beside it.
Init == Idle /\ logo_exists = TRUE /\ suspended = NoOther

\* str(e) of the AttributeError that None.split raises.
NoSplitMessage == "'NoneType' object has no attribute 'split'"

\* str(e) of the LayoutError that doc.build raises.
LayoutMessage == "Flowable too large on page"

\* A failure answer that also carries what the buffer holds so far.
ErrorResponseWithBytes(e) ==
    [status |-> 500,
     body |-> [error |-> e,
               pdf_base64 |-> [encoding |-> "base64", pages |-> page,
                               decorations |-> decorations, drawn |-> placed]]]

\* The except clause: jsonify({"error": str(e)}), 500.
ErrorResponse(e) == [status |-> 500, body |-> [error |-> e]]

\* base64.b64encode(pdf_bytes).decode('utf-8') of the buffer doc.build
\* filled: the pages with their decorations and drawings.
PdfBase64 ==
    [encoding |-> "base64", pages |-> page, decorations |-> decorations,
     drawn |-> placed]

\* jsonify({"success": True, "pdf_base64": pdf_base64}).
SuccessResponse ==
    [status |-> 200, body |-> [success |-> TRUE, pdf_base64 |-> PdfBase64]]

\* generate_pdf from the request to the call of doc.build: the normalizer
\* and the section builder run, or the handler's except clause answers.
GeneratePdf(d) ==
    /\ \/ pc = "idle"
       \/ pc = "again" /\ d = data
    /\ data' = d
    /\ IF BuildRaises(d)
       THEN /\ pc' = "failed"
            /\ response' = ErrorResponse(NoSplitMessage)
            /\ UNCHANGED << processed_lines, alg_html, story, flowables, page,
                            frameLeft, atTop, decorations >>
       ELSE /\ pc' = "build"
            /\ processed_lines' = ProcessedLines(Get(d, "algorithm", <<>>))
            /\ alg_html' = AlgHtml(processed_lines')
            /\ story' = BuildStory(d)
            /\ flowables' = story'
            /\ page' = 1
            /\ frameLeft' = FrameHeight
            /\ atTop' = TRUE
            /\ decorations' = << DrawDecorations(d, logo_exists) >>
            /\ UNCHANGED response
    /\ UNCHANGED << prevASpace, placed, wrapCall, logo_exists, previous, suspended >>

(***************************************************************************)
(* doc.build(story, ...): the loop that takes the first flowable and adds  *)
(* it to the page's frame, splits it, or ends the page.                    *)
(***************************************************************************)

\* The FrameBreak and NullActionFlowable that KeepTogether.split puts first.
ActionFlowable(type) ==
    [type |-> type, style |-> "", text |-> <<>>,
     content |-> <<>>, height |-> 0, postponed |-> FALSE]

IsAction(f) == f.type \in {"FrameBreak", "NullAction"}

\* The space the frame leaves above f: none at the top of the frame,
\* otherwise f's space before less the space after the previous flowable.
GapAbove(f) == IF atTop THEN 0 ELSE Max(SpaceBefore(f) - prevASpace, 0)

\* Frame.add succeeds: there is room under the gap and f's height fits in it.
Fits(f) ==
    LET h == frameLeft - GapAbove(f)
    IN  h > 0 /\ WrapHeight(f, h) <= h

\* Paragraph.split(availWidth, h): the lines that fit and the rest; not
\* split when fewer than two lines fit (allowOrphans is off).
ParagraphSplit(f, h) ==
    LET lines == SplitBr(f.text)
        s == IF h <= 0 THEN 0 ELSE h \div Leading(f.style)
    IN  IF s <= 1 THEN <<>>
        ELSE IF Len(lines) <= s THEN <<f>>
        ELSE << Paragraph(JoinBr(SubSeq(lines, 1, s)), f.style),
                Paragraph(JoinBr(SubSeq(lines, s + 1, Len(lines))), f.style) >>

\* KeepTogether.split(availWidth, h): the content, behind a FrameBreak when
\* it does not fit in h and the frame is not empty, behind a
\* NullActionFlowable when it does not fit in an empty frame either.
KeepTogetherSplit(f, h) ==
    IF ListHeight(f.content, TRUE, 0) > h
    THEN << ActionFlowable(IF atTop THEN "NullAction" ELSE "FrameBreak") >> \o f.content
    ELSE f.content

\* Frame.split(f): f.split at the height left under the gap.
SplitFlowable(f) ==
    LET h == frameLeft - GapAbove(f)
    IN  CASE f.type = "Paragraph" -> ParagraphSplit(f, h)
          [] f.type = "KeepTogether" -> KeepTogetherSplit(f, h)
          [] OTHER -> <<>>

\* What f.draw() puts on the canvas: the text of a paragraph, the cells of
\* a table; Spacer.draw and PushToBottomSpacer.draw do nothing.
RECURSIVE DrawFlowable(_)
DrawFlowable(f) ==
    CASE f.type = "Paragraph" -> << f.text >>
      [] f.type = "Table" ->
            [i \in 1..Len(f.content) |-> DrawFlowable(f.content[i])[1]]
      [] OTHER -> <<>>

\* The frame after f is drawn in it, and the record of the drawing.
Place(f, rest) ==
    LET h == WrapHeight(f, frameLeft - GapAbove(f))
        bottom == frameLeft - GapAbove(f) - h
    IN  /\ placed' = Append(placed,
                [block |-> f, page |-> page, height |-> h, bottom |-> bottom,
                 drawn |-> DrawFlowable(f)])
        /\ frameLeft' = bottom - SpaceAfter(f)
        /\ prevASpace' = SpaceAfter(f)
        /\ atTop' = (atTop /\ frameLeft' = frameLeft)
        /\ flowables' = rest
        /\ UNCHANGED << pc, page, response, decorations >>

\* The next page begun without the onLaterPages callback: only the first
\* page is decorated.
NextPageUndecorated(rest) ==
    /\ page' = page + 1
    /\ frameLeft' = FrameHeight
    /\ atTop' = TRUE
    /\ prevASpace' = 0
    /\ flowables' = rest
    /\ UNCHANGED << pc, placed, response, decorations >>

\* handle_frameEnd: the page ends and the next one begins, decorated, with
\* an empty frame.
NextPage(rest) ==
    /\ page' = page + 1
    /\ decorations' = Append(decorations, DrawDecorations(data, logo_exists))
    /\ frameLeft' = FrameHeight
    /\ atTop' = TRUE
    /\ prevASpace' = 0
    /\ flowables' = rest
    /\ UNCHANGED << pc, placed, response >>

\* The flowable that failed twice is put back once more and no error is
\* raised: the loop takes it up again in the same frame.
LayoutErrorPutBack ==
    UNCHANGED << pc, response, flowables, page, frameLeft, atTop, prevASpace,
                 placed, decorations >>

\* A LayoutError leaves doc.build; the except clause answers with the error.
LayoutError ==
    /\ pc' = "failed"
    /\ response' = ErrorResponse(LayoutMessage)
    /\ UNCHANGED << flowables, page, frameLeft, atTop, prevASpace, placed,
                    decorations >>

\* One turn of the loop: handle_flowable on the first flowable.
HandleFlowable ==
    /\ pc = "build"
    /\ Len(flowables) > 0
    /\ \E f \in {Head(flowables)}, rest \in {Tail(flowables)} :
       \E S \in {SplitFlowable(f)} :
           IF f.type = "FrameBreak" THEN NextPage(rest)
           ELSE IF f.type = "NullAction"
                THEN /\ flowables' = rest
                     /\ UNCHANGED << pc, page, frameLeft, atTop, prevASpace,
                                     placed, response, decorations >>
           ELSE IF Fits(f) THEN Place(f, rest)
           ELSE IF Len(S) > 0
                THEN IF IsAction(S[1])
                     THEN /\ flowables' = S \o rest
                          /\ UNCHANGED << pc, page, frameLeft, atTop, prevASpace,
                                          placed, response, decorations >>
                     ELSE IF Fits(S[1]) THEN Place(S[1], Tail(S) \o rest)
                     ELSE LayoutError
           ELSE IF f.postponed THEN LayoutError
           ELSE NextPage(<< [f EXCEPT !.postponed = TRUE] >> \o rest)
    /\ LET f == Head(flowables)
           h == frameLeft - GapAbove(f)
       IN  wrapCall' = IF f.type = "PushToBottomSpacer" /\ h > 0
                       THEN WrapCall(f.content, FrameWidth, h)
                       ELSE wrapCall
    /\ UNCHANGED << data, processed_lines, alg_html, story, logo_exists, previous, suspended >>

\* doc.build returns: the buffer holds the document and the handler answers
\* {"success": True, "pdf_base64": ...}.
Respond ==
    /\ pc = "build"
    /\ Len(flowables) = 0
    /\ pc' = "done"
    /\ response' = SuccessResponse
    /\ UNCHANGED << data, processed_lines, alg_html, story, flowables, page,
                    frameLeft, atTop, prevASpace, placed, wrapCall,
                    logo_exists, decorations, previous,
                    suspended >>

Next ==
    \/ \E d \in Records : GeneratePdf(d)
    \/ HandleFlowable
    \/ Respond

Spec == Init /\ [][Next]_vars

\* The handler's thread keeps running: doc.build's loop takes the next
\* flowable as long as there is one, and the handler answers when the loop
\* has ended.
SpecLive == Spec /\ WF_vars(HandleFlowable) /\ WF_vars(Respond)

(***************************************************************************)
(* The algorithm processor on its own: the part of generate_pdf that turns *)
(* the algorithm text into alg_html, on every text of AlgTexts.            *)
(***************************************************************************)

Normalize(a) ==
    /\ pc = "idle"
    /\ alg_html = <<>>
    /\ data' = [algorithm |-> a]
    /\ processed_lines' = ProcessedLines(Get(data', "algorithm", <<>>))
    /\ alg_html' = AlgHtml(processed_lines')
    /\ UNCHANGED << pc, story, flowables, page, frameLeft, atTop, prevASpace,
                    placed, wrapCall, response, logo_exists, decorations, previous,
                    suspended >>

NextNorm == \E a \in AlgTexts : Normalize(a)

SpecNorm == Init /\ [][NextNorm]_vars

(***************************************************************************)
(* The page decorator: the handler on records that vary the header texts   *)
(* and the number of pages, with the watermark file present or missing,    *)
(* and the same request made once more after the file was removed or put   *)
(* back.                                                                   *)
(***************************************************************************)

\* Names and register numbers.
NameTexts ==
    {
      <<"A", "s", "h", "a", " ", "R">>,
      <<"2", "1", "<", "C", "S", ">", "&", "1">>
    }

\* Records that vary what the decorator draws and how many pages it draws on.
DecorRecords ==
    { RecordOf([name |-> n, regNo |-> g, algorithm |-> a, program |-> p, result |-> r]) :
        n \in NameTexts \cup {None, Missing},
        g \in {<<>>, Missing},
        a \in {BaseRecord.algorithm, None},
        p \in {<<>>, LinesOf(ProgramLine, MaxProgLines)},
        r \in {<<>>, ResultSample, LinesOf(ResultLine, MaxResultLines)} }

InitDecor == Idle /\ logo_exists \in BOOLEAN /\ suspended = NoOther

\* The request has been answered; the watermark file is removed or put back
\* and the same record is posted again.
RequestAgain ==
    /\ pc \in {"done", "failed"}
    /\ ~previous.ran
    /\ previous' = [ran |-> TRUE, logo_exists |-> logo_exists, story |-> story,
                    placed |-> placed, decorations |-> decorations,
                    response |-> response]
    /\ logo_exists' = ~logo_exists
    /\ pc' = "again"
    /\ processed_lines' = <<>>
    /\ alg_html' = <<>>
    /\ story' = <<>>
    /\ flowables' = <<>>
    /\ page' = 0
    /\ frameLeft' = 0
    /\ atTop' = TRUE
    /\ prevASpace' = 0
    /\ placed' = <<>>
    /\ wrapCall' = NoCall
    /\ response' = NoResponse
    /\ decorations' = <<>>
    /\ UNCHANGED << data, suspended >>

NextDecor ==
    \/ \E d \in DecorRecords : GeneratePdf(d)
    \/ HandleFlowable
    \/ Respond
    \/ RequestAgain

SpecDecor == InitDecor /\ [][NextDecor]_vars

(***************************************************************************)
(* Two requests in service at once, each in its own thread of the server:  *)
(* the variables above are the locals of the call that is running, and     *)
(* suspended holds those of the other call. The scheduler switches between *)
(* the calls at any step. What the calls share is what the module keeps    *)
(* outside generate_pdf: constants and the watermark file, none of which   *)
(* generate_pdf writes. When both calls have answered, each record is      *)
(* posted once more with no other request in service.                      *)
(***************************************************************************)

\* The records of the two requests: a one-page document, a result moved to
\* the next page, a result taller than a page, a null algorithm, a program
\* that runs over the page with an output.
PairRecords ==
    { BaseRecord,
      RecordOf([result |-> ResultSample]),
      RecordOf([result |-> LinesOf(ResultLine, MaxResultLines)]),
      RecordOf([algorithm |-> None]),
      RecordOf([program |-> LinesOf(ProgramLine, MaxProgLines),
                output |-> MarkupOutputText, result |-> MarkupResult]) }

\* The locals of the call that is running.
Locals ==
    [pc |-> pc, data |-> data, processed_lines |-> processed_lines,
     alg_html |-> alg_html, story |-> story, flowables |-> flowables,
     page |-> page, frameLeft |-> frameLeft, atTop |-> atTop,
     prevASpace |-> prevASpace, placed |-> placed, wrapCall |-> wrapCall,
     response |-> response, decorations |-> decorations]

\* The running call resumes with the locals l.
Resume(l) ==
    /\ pc' = l.pc
    /\ data' = l.data
    /\ processed_lines' = l.processed_lines
    /\ alg_html' = l.alg_html
    /\ story' = l.story
    /\ flowables' = l.flowables
    /\ page' = l.page
    /\ frameLeft' = l.frameLeft
    /\ atTop' = l.atTop
    /\ prevASpace' = l.prevASpace
    /\ placed' = l.placed
    /\ wrapCall' = l.wrapCall
    /\ response' = l.response
    /\ decorations' = l.decorations

\* What a call that has answered leaves: its record, its block list and
\* its answer.
Outcome(l) ==
    [data |-> l.data, story |-> l.story, placed |-> l.placed,
     decorations |-> l.decorations, response |-> l.response]

InitPair ==
    /\ Idle
    /\ logo_exists = TRUE
    /\ suspended = [phase |-> "pair", self |-> 1, locals |-> IdleLocals,
                    outcomes |-> <<>>, overlapped |-> FALSE]

\* Both calls are inside doc.build (kept in suspended.overlapped once a
\* switch has happened in such a state).
BothBuilding == pc = "build" /\ suspended.locals.pc = "build"

\* A switch in which the block list is a module-level list that both calls
\* append to and build from, instead of a local of each call.
SwitchSharedStory ==
    /\ suspended.phase = "pair"
    /\ Resume([suspended.locals EXCEPT !.story = story])
    /\ suspended' = [suspended EXCEPT !.self = 3 - @, !.locals = Locals,
                                      !.overlapped = @ \/ BothBuilding]
    /\ UNCHANGED << logo_exists, previous >>

\* The scheduler suspends the running call and resumes the other one.
Switch ==
    /\ suspended.phase = "pair"
    /\ Resume(suspended.locals)
    /\ suspended' = [suspended EXCEPT !.self = 3 - @, !.locals = Locals,
                                      !.overlapped = @ \/ BothBuilding]
    /\ UNCHANGED << logo_exists, previous >>

\* Both calls have answered (k = 1), or the first record has been answered
\* alone (k = 2): the record of call k is posted with nothing else in
\* service.
PostAlone(k) ==
    /\ pc \in {"done", "failed"}
    /\ \/ /\ k = 1
          /\ suspended.phase = "pair"
          /\ suspended.locals.pc \in {"done", "failed"}
          /\ suspended' =
                [phase |-> "alone", self |-> 1, locals |-> IdleLocals,
                 overlapped |-> suspended.overlapped,
                 outcomes |->
                    IF suspended.self = 1
                    THEN << Outcome(Locals), Outcome(suspended.locals) >>
                    ELSE << Outcome(suspended.locals), Outcome(Locals) >>]
       \/ /\ k = 2
          /\ suspended.phase = "alone"
          /\ suspended.self = 1
          /\ suspended' = [suspended EXCEPT !.self = 2]
    /\ Resume([IdleLocals EXCEPT !.pc = "again",
                                 !.data = suspended'.outcomes[k].data])
    /\ UNCHANGED << logo_exists, previous >>

NextPair ==
    \/ \E d \in PairRecords : GeneratePdf(d)
    \/ HandleFlowable
    \/ Respond
    \/ Switch
    \/ \E k \in 1..2 : PostAlone(k)

SpecPair == InitPair /\ [][NextPair]_vars

(***************************************************************************)
(* PushToBottomSpacer.wrap on its own: the spacer of a result block of n   *)
(* body lines asked at any available height around what the block needs.   *)
(***************************************************************************)

\* Largest number of body lines of the result blocks measured.
MaxWrapLines == 3

\* How far the available height goes below and above total_needed.
WrapWindow == 40

\* The widths the spacer is asked at: the frame's, and a narrower one.
WrapWidths == {FrameWidth, FrameWidth - Inch}

\* One call of wrap, with nothing measured before it.
SpacerWrap(n, w, delta) ==
    /\ pc = "idle"
    /\ ~wrapCall.called
    /\ LET elements == ResultBlock([result |-> LinesOf(ResultLine, n)])
       IN  wrapCall' = WrapCall(elements, w, TotalNeeded(elements) + delta)
    /\ UNCHANGED << pc, data, processed_lines, alg_html, story, flowables, page,
                    frameLeft, atTop, prevASpace, placed, response,
                    logo_exists, decorations, previous,
                    suspended >>

NextWrap ==
    \E n \in 1..MaxWrapLines, w \in WrapWidths, delta \in (-WrapWindow)..WrapWindow :
        SpacerWrap(n, w, delta)

SpecWrap == Init /\ [][NextWrap]_vars

(***************************************************************************)
(* Reading the normalizer's output and the story, for the properties.      *)
(***************************************************************************)

\* The story has been built: the handler got past the section builder.
Built == pc \in {"build", "done"} \/ (pc = "failed" /\ page > 0)

\* The normalizer has run: its output is never the empty string.
Normalized == Len(alg_html) > 0

\* The steps of the normalizer's output, one per <br/>-separated line.
Steps == SplitBr(alg_html)

\* s begins with prefix.
HasPrefix(s, prefix) ==
    Len(s) >= Len(prefix) /\ SubSeq(s, 1, Len(prefix)) = prefix

\* The label "Step k: ".
StepLabel(k) == StepPrefix \o Str(k) \o StepColon

\* The text of step k of the output, after its label.
StepText(k) == SubSeq(Steps[k], Len(StepLabel(k)) + 1, Len(Steps[k]))

\* The raw algorithm text of the record ("" when the key is absent).
AlgRaw == Get(data, "algorithm", <<>>)

\* The cleaned texts of the input lines that are usable (not blank, not only
\* a label, not boilerplate), in input order, duplicates included.
RECURSIVE UsableTexts(_)
UsableTexts(lines) ==
    IF Len(lines) = 0 THEN <<>>
    ELSE LET t == StripStepLabel(Strip(Head(lines)))
         IN  (IF Len(t) = 0 \/ IsBoilerplate(t) THEN <<>> ELSE <<t>>)
                 \o UsableTexts(Tail(lines))

Usable == UsableTexts(SplitLines(AlgRaw))

\* The characters html.escape rewrites.
EscapedChars == {"&", "<", ">", "\"", "'"}

\* The paragraphs, tables and spacers of the story in flow order, the
\* content of a KeepTogether in its place (a PushToBottomSpacer counts as
\* itself: the elements it measures are not in the flow through it).
RECURSIVE Flatten(_)
Flatten(blocks) ==
    IF Len(blocks) = 0 THEN <<>>
    ELSE (IF Head(blocks).type = "KeepTogether" THEN Head(blocks).content
          ELSE <<Head(blocks)>>) \o Flatten(Tail(blocks))

Flow == Flatten(story)

\* The positions in the flow of the heading paragraphs with this text.
HeadingAt(heading) ==
    {i \in 1..Len(Flow) : Flow[i] = Paragraph(heading, "Heading")}

\* The four optional sections: field, heading text, body style, body prefix.
Sections ==
    { [field |-> "aim", heading |-> AimHeading, style |-> "Body", prefix |-> Indent],
      [field |-> "program", heading |-> ProgramHeading, style |-> "Body", prefix |-> <<>>],
      [field |-> "output", heading |-> OutputHeading, style |-> "TurboC", prefix |-> <<>>],
      [field |-> "result", heading |-> ResultHeading, style |-> "Body", prefix |-> Indent] }

\* The field of the record is empty: absent, null or "".
IsEmpty(field) == ~Truthy(GetOrNone(data, field))

\* The blocks of the story of this type.
BlocksOfType(type) == {i \in 1..Len(story) : story[i].type = type}

(***************************************************************************)
(* Properties of the normalizer.                                           *)
(***************************************************************************)

\* C1: the normalizer's output starts with "Step 1: Start the program",
\* ends with "Step N: Stop the program" for some N >= 2, the steps between
\* carry the labels Step 2, ..., Step N-1 in this order, and neither
\* synthesized text is the text of a step between.
C1_StartStopContiguous ==
    Normalized =>
        LET N == Len(Steps)
        IN  /\ N >= 2
            /\ Steps[1] = StartLine
            /\ Steps[N] = StepLabel(N) \o StopText
            /\ \A k \in 2..(N - 1) :
                  /\ HasPrefix(Steps[k], StepLabel(k))
                  /\ Steps[k] # StartLine
                  /\ StepText(k) # StopText
                  /\ StepText(k) # SubSeq(StartLine, Len(StepLabel(1)) + 1, Len(StartLine))
            /\ Cardinality({k \in 1..N : Steps[k] = StartLine}) = 1
            /\ Cardinality({k \in 1..N : StepText(k) = StopText}) = 1

\* C1 witness: an output with two steps between the synthesized ones.
C1_Witness == Normalized /\ Len(Steps) = 4 /\ Len(processed_lines) = 2

\* The positions of Usable that hold the first occurrence of their text.
FirstOccurrences ==
    {i \in 1..Len(Usable) : \A j \in 1..(i - 1) : Usable[j] # Usable[i]}

\* C4: the kept lines are the first occurrences of the usable cleaned texts,
\* in input order, compared exactly (so texts that differ in letter case are
\* both kept), and no two steps between the synthesized ones have the same
\* text.
C4_FirstOccurrenceKept ==
    Normalized =>
        /\ Len(processed_lines) = Cardinality(FirstOccurrences)
        /\ \A i \in FirstOccurrences :
              processed_lines[Cardinality({j \in FirstOccurrences : j <= i})] = Usable[i]
        /\ Len(Steps) = Len(processed_lines) + 2
        /\ \A k \in 2..(Len(Steps) - 1) :
              /\ StepText(k) = HtmlEscape(processed_lines[k - 1])
              /\ \A m \in 2..(Len(Steps) - 1) : m # k => StepText(m) # StepText(k)

\* C4 witness: two usable lines with the same cleaned text, one of them kept.
C4_Witness ==
    /\ Normalized
    /\ Len(Usable) = 2
    /\ Usable[1] = Usable[2]
    /\ Len(processed_lines) = 1

\* C4, its last part: two kept lines that differ only in letter case.
C4_CaseWitness ==
    /\ Normalized
    /\ Len(processed_lines) = 2
    /\ processed_lines[1] # processed_lines[2]
    /\ Lower(processed_lines[1]) = Lower(processed_lines[2])

\* A raw line whose cleaned text holds one of the two phrases in any case.
HoldsPhrase(rawline) ==
    LET t == Lower(StripStepLabel(Strip(rawline)))
    IN  Contains(t, StartPhrase) \/ Contains(t, StopPhrase)

\* C5: no step between the synthesized ones contains "start the program" or
\* "stop the program" in any letter case, and no input line whose cleaned
\* text contains one is kept.
C5_NoBoilerplateKept ==
    Normalized =>
        /\ \A k \in 2..(Len(Steps) - 1) :
              /\ ~Contains(Lower(Steps[k]), StartPhrase)
              /\ ~Contains(Lower(Steps[k]), StopPhrase)
        /\ \A i \in 1..Len(processed_lines) :
              /\ ~Contains(Lower(processed_lines[i]), StartPhrase)
              /\ ~Contains(Lower(processed_lines[i]), StopPhrase)

\* C5 witness: an input line with a phrase in upper case was discarded and
\* another line was kept.
C5_Witness ==
    /\ Normalized
    /\ \E l \in Range(SplitLines(AlgRaw)) :
          /\ HoldsPhrase(l)
          /\ ~IsBoilerplateCaseSensitive(StripStepLabel(Strip(l)))
    /\ Len(processed_lines) = 1

\* The normalizer applied to its own output, the synthesized first and last
\* steps removed and the steps between taken as the lines of the text.
Renormalized ==
    AlgHtml(ProcessedLines(JoinLines(SubSeq(Steps, 2, Len(Steps) - 1))))

\* No kept line holds a character that html.escape rewrites.
NothingEscaped ==
    \A i \in 1..Len(processed_lines) : Range(processed_lines[i]) \cap EscapedChars = {}

\* C6 as stated: normalizing the output again gives the same steps, for
\* every algorithm text.
C6_Idempotent == Normalized => Renormalized = alg_html

\* C6 amended: normalizing the output again gives the same steps when no
\* step text holds a character that the normalizer escapes.
C6_IdempotentUnescaped == (Normalized /\ NothingEscaped) => Renormalized = alg_html

\* C6 witness: two kept steps without escaped characters, one of which came
\* with a label.
C6_Witness ==
    /\ Normalized
    /\ NothingEscaped
    /\ Len(processed_lines) = 2
    /\ \E l \in Range(SplitLines(AlgRaw)) : StepLabelLen(Strip(l)) > 0

(***************************************************************************)
(* Properties of PushToBottomSpacer.wrap.                                  *)
(***************************************************************************)

\* The heights the elements of the last wrap call measure, summed.
RECURSIVE MeasuredSum(_)
MeasuredSum(elements) ==
    IF Len(elements) = 0 THEN 0
    ELSE LineCount(Head(elements).text) * Leading(Head(elements).style)
             + MeasuredSum(Tail(elements))

\* The required total T of the last wrap call: the sum plus 0.05 inch.
RequiredTotal == MeasuredSum(wrapCall.elements) + Inch \div 20

\* C2: with T the measured heights plus 0.05 inch, wrap on the available
\* height A reports A - T when A >= T (0 at A = T) and more than A when
\* A < T; the width it reports is the available width.
C2_WrapReports ==
    wrapCall.called =>
        /\ wrapCall.availHeight >= RequiredTotal
              => wrapCall.height = wrapCall.availHeight - RequiredTotal
        /\ wrapCall.availHeight < RequiredTotal
              => wrapCall.height > wrapCall.availHeight
        /\ wrapCall.width = wrapCall.availWidth

\* C2 witness: a call at exactly the required total reports 0, at a width
\* that is not the frame's.
C2_Witness ==
    /\ wrapCall.called
    /\ wrapCall.availHeight = RequiredTotal
    /\ wrapCall.height = 0
    /\ wrapCall.availWidth # FrameWidth

(***************************************************************************)
(* Properties of the placement of the result.                              *)
(***************************************************************************)

\* The drawings of the blocks equal to f.
DrawnAt(f) == {i \in 1..Len(placed) : placed[i].block = f}

\* C3: when the result is not empty and the spacer found the result block to
\* fit on the page it was first reached on, the heading and the body of the
\* result are drawn on that page, the body ending at the bottom of the
\* frame (within the spacer's buffer of it).
C3_ResultPinnedOnSamePage ==
    pc = "done" =>
        \A i \in 1..Len(placed) :
            (placed[i].block.type = "PushToBottomSpacer" /\ ~placed[i].block.postponed)
                => /\ \E h \in DrawnAt(ResultBlock(data)[1]) :
                          h > i /\ placed[h].page = placed[i].page
                   /\ \E b \in DrawnAt(ResultBlock(data)[2]) :
                          /\ b > i
                          /\ placed[b].page = placed[i].page
                          /\ placed[b].bottom <= SafetyMargin

(***************************************************************************)
(* Properties of the section builder.                                      *)
(***************************************************************************)

\* The text a section's body is made from: the field, and for the output
\* what is left of it after trimming and removing a leading output label.
SectionText(sec) ==
    IF sec.field = "output" THEN OutClean(data[sec.field]) ELSE data[sec.field]

\* The sections whose field is not empty.
FilledSections == {sec \in Sections : ~IsEmpty(sec.field)}

\* The flow holds the header table, its spacer, the algorithm pair, a pair
\* per filled section and the bottom-pin spacer of a result: nothing else.
OnlyFilledSections ==
    Len(Flow) = 4 + 2 * Cardinality(FilledSections)
                  + (IF IsEmpty("result") THEN 0 ELSE 1)

\* C7 as stated: a section of an empty field has no heading and no body; a
\* section of a filled field has exactly one heading, followed by exactly one
\* body, and the body carries the escaped text of the field.
C7_SectionCarriesField ==
    Built =>
        /\ OnlyFilledSections
        /\ \A sec \in Sections :
              IF IsEmpty(sec.field) THEN HeadingAt(sec.heading) = {}
              ELSE /\ Cardinality(HeadingAt(sec.heading)) = 1
                   /\ \A i \in HeadingAt(sec.heading) :
                         /\ i < Len(Flow)
                         /\ Flow[i + 1].type = "Paragraph"
                         /\ Flow[i + 1].style = sec.style
                         /\ Contains(Flow[i + 1].text, safe_text(data[sec.field]))

\* C7 amended: the same, the body of the output section carrying the
\* escaped text that is left of the field after trimming it and removing a
\* leading output label.
C7_SectionCarriesCleanedField ==
    Built =>
        /\ OnlyFilledSections
        /\ \A sec \in Sections :
              IF IsEmpty(sec.field) THEN HeadingAt(sec.heading) = {}
              ELSE /\ Cardinality(HeadingAt(sec.heading)) = 1
                   /\ \A i \in HeadingAt(sec.heading) :
                         /\ i < Len(Flow)
                         /\ Flow[i + 1] =
                               Paragraph(sec.prefix \o safe_text(SectionText(sec)), sec.style)

\* C7 witness: a record with an aim and a labelled output, without program
\* and result.
C7_Witness ==
    /\ pc = "done"
    /\ FilledSections = {sec \in Sections : sec.field \in {"aim", "output"}}
    /\ OutputLabelLen(Strip(data.output)) > 0

\* The number of lines of a text, a final newline ending its last line.
TextLines(text) ==
    IF Len(text) > 0 /\ text[Len(text)] = "\n"
    THEN Len(SplitLines(text)) - 1
    ELSE Len(SplitLines(text))

\* The heading and the body of the program section.
ProgramPair ==
    << Paragraph(ProgramHeading, "Heading"),
       Paragraph(safe_text(data.program), "Body") >>

\* C8: a program of 14 lines or fewer is in the story as one KeepTogether of
\* its heading and body, a program of 15 lines or more as the two blocks
\* themselves; also for a text that ends with a newline.
C8_ProgramKeptTogetherUpTo14 ==
    (Built /\ ~IsEmpty("program")) =>
        IF TextLines(data.program) <= 14
        THEN \E i \in 1..Len(story) : story[i] = KeepTogether(ProgramPair)
        ELSE \E i \in 1..(Len(story) - 1) :
                 story[i] = ProgramPair[1] /\ story[i + 1] = ProgramPair[2]

TwoSteps ==
    <<"S", "t", "e", "p", " ", "1", ":", " ", "S", "t", "a", "r", "t", " ", "t", "h", "e", " ",
    "p", "r", "o", "g", "r", "a", "m", "<", "b", "r", "/", ">", "S", "t", "e", "p", " ", "2",
    ":", " ", "S", "t", "o", "p", " ", "t", "h", "e", " ", "p", "r", "o", "g", "r", "a", "m">>

\* C9: the story of every record whose algorithm is absent or a text holds
\* the algorithm heading once, followed by a body of at least two steps, and
\* the body is exactly the two synthesized steps when no line is usable.
C9_AlgorithmAlwaysEmitted ==
    Built =>
        /\ Cardinality({i \in 1..Len(story) :
                            story[i] = Paragraph(AlgorithmHeading, "Heading")}) = 1
        /\ \A i \in 1..Len(story) :
              story[i] = Paragraph(AlgorithmHeading, "Heading") =>
                  /\ i < Len(story)
                  /\ story[i + 1].type = "Paragraph"
                  /\ story[i + 1].style = "Body"
                  /\ LineCount(story[i + 1].text) >= 2
                  /\ Len(Usable) = 0 => story[i + 1].text = TwoSteps

\* C9 witness: a finished document of a record without the algorithm key.
C9_Witness ==
    /\ pc = "done"
    /\ "algorithm" \notin DOMAIN data
    /\ \E i \in 1..Len(story) : story[i] = Paragraph(TwoSteps, "Body")

\* A stripped line that starts with "Step", a space, one digit and a colon.
PlainLabelled(line) ==
    /\ Len(line) >= 7
    /\ SubSeq(line, 1, 5) = StepPrefix
    /\ line[6] \in Digits
    /\ line[7] = ":"

FourSteps ==
    <<"S", "t", "e", "p", " ", "1", ":", " ", "S", "t", "a", "r", "t", " ", "t", "h", "e", " ",
    "p", "r", "o", "g", "r", "a", "m", "<", "b", "r", "/", ">", "S", "t", "e", "p", " ", "2",
    ":", " ", "R", "e", "a", "d", " ", "a", " ", "a", "n", "d", " ", "b", "<", "b", "r", "/",
    ">", "S", "t", "e", "p", " ", "3", ":", " ", "P", "r", "i", "n", "t", " ", "s", "u", "m",
    "<", "b", "r", "/", ">", "S", "t", "e", "p", " ", "4", ":", " ", "S", "t", "o", "p", " ",
    "t", "h", "e", " ", "p", "r", "o", "g", "r", "a", "m">>

\* The story of BaseRecord: header table with the title, spacer, algorithm
\* heading and the four steps.
BaseStory ==
    << Table(<< Paragraph(ExpNoLabel, "TLeft"),
                Paragraph(BaseRecord.title, "TCenter"),
                Paragraph(DateLabel \o DatePlaceholder, "TLeft") >>),
       Spacer(Inch \div 5),
       Paragraph(AlgorithmHeading, "Heading"),
       Paragraph(FourSteps, "Body") >>

\* C10: a line labelled "Step <n>:" is kept without its label; k distinct
\* usable lines give k + 2 steps, the kept lines numbered from 2 in input
\* order; the record with only a title and a two-line algorithm gives the
\* header table, the spacer and a four-step algorithm section, and nothing
\* else.
C10_RenumberedFromTwo ==
    Built =>
        /\ Len(Steps) = Cardinality(Range(Usable)) + 2
        /\ \A i \in 1..Len(processed_lines) :
              /\ Steps[i + 1] = StepLabel(i + 1) \o HtmlEscape(processed_lines[i])
              /\ \E u \in 1..Len(Usable) :
                    /\ Usable[u] = processed_lines[i]
                    /\ \A j \in 1..(i - 1) : \E v \in 1..(u - 1) : Usable[v] = processed_lines[j]
        /\ \A l \in Range(SplitLines(AlgRaw)) :
              PlainLabelled(Strip(l)) =>
                  LET t == Strip(SubSeq(Strip(l), 8, Len(Strip(l))))
                  IN  \/ Len(t) = 0
                      \/ Contains(Lower(t), StartPhrase)
                      \/ Contains(Lower(t), StopPhrase)
                      \/ \E i \in 1..Len(processed_lines) : processed_lines[i] = t
        /\ data = BaseRecord => story = BaseStory

\* C10 witness: the finished document of the record with only a title and
\* the two labelled algorithm lines.
C10_Witness == pc = "done" /\ data = BaseRecord /\ Len(Steps) = 4

(***************************************************************************)
(* Properties of the output section.                                       *)
(***************************************************************************)

\* The trimmed output field.
OutRaw == Strip(data.output)

HelloLabelled ==
    <<"O", "U", "T", "P", "U", "T", ":", " ", "H", "e", "l", "l", "o", " ", "W", "o", "r", "l",
    "d">>

Hello ==
    <<"H", "e", "l", "l", "o", " ", "W", "o", "r", "l", "d">>

\* label is an output label: the word "output" in any letter case, then
\* only whitespace and the separators ':', '-', '.'.
IsOutputLabel(label) ==
    /\ Len(label) >= 6
    /\ Lower(SubSeq(label, 1, 6)) = OutputWord
    /\ \A i \in 7..Len(label) : label[i] \in Whitespace \cup Separators

\* C11: when output is not empty the story holds the output heading once,
\* followed by one body in the terminal style whose text is the escaped
\* rest of the trimmed field after its leading output label (the word in any
\* letter case with the separators and whitespace after it); a field that
\* starts with the word loses it, and "OUTPUT: Hello World" gives the body
\* "Hello World".
C11_OutputLabelStripped ==
    (Built /\ ~IsEmpty("output")) =>
        /\ Cardinality(HeadingAt(OutputHeading)) = 1
        /\ \A i \in HeadingAt(OutputHeading) :
              /\ i < Len(Flow)
              /\ Flow[i + 1].type = "Paragraph"
              /\ Flow[i + 1].style = "TurboC"
              /\ \E k \in 0..Len(OutRaw) :
                    LET label == SubSeq(OutRaw, 1, k)
                        rest == SubSeq(OutRaw, k + 1, Len(OutRaw))
                    IN  /\ k = 0 \/ IsOutputLabel(label)
                        /\ Flow[i + 1].text = safe_text(rest)
                        /\ (Len(OutRaw) >= 6 /\ IsOutputLabel(SubSeq(OutRaw, 1, 6))) =>
                              /\ k >= 6
                              /\ Len(rest) > 0 => rest[1] \notin Whitespace
                              /\ (Len(rest) > 0 /\ rest[1] \in Separators)
                                    => \E j \in 7..k : label[j] \in Separators
              /\ data.output = HelloLabelled => Flow[i + 1].text = Hello

\* C11 witness: the finished document of the record with the output
\* "OUTPUT: Hello World", its body "Hello World" in the terminal style.
C11_Witness ==
    /\ pc = "done"
    /\ "output" \in DOMAIN data
    /\ data.output = HelloLabelled
    /\ \E i \in 1..Len(story) : story[i] = Paragraph(Hello, "TurboC")

(***************************************************************************)
(* Properties of the page decorator.                                       *)
(***************************************************************************)

\* The drawing calls of the decoration of page p, in order.
DecorationOps(p) == [i \in 1..Len(decorations[p]) |-> decorations[p][i].op]

\* C12: every page that was begun is decorated with the header texts, the
\* border and the footer, and with the image exactly when the watermark file
\* exists; and the same record posted with the file present and with the file
\* missing gets the same answer (a success in both or the same failure in
\* both), the same block sequence and the same drawings on the same pages.
C12_WatermarkResilient ==
    /\ Len(decorations) = page
    /\ \A p \in 1..Len(decorations) :
          /\ SubSeq(DecorationOps(p), 1, 4)
                = << "drawString", "drawRightString", "rect", "drawRightString" >>
          /\ decorations[p][4].text = FooterText
          /\ IF logo_exists
             THEN Len(decorations[p]) = 5 /\ decorations[p][5].op = "drawImage"
             ELSE Len(decorations[p]) = 4
    /\ (previous.ran /\ pc \in {"done", "failed"}) =>
          /\ previous.logo_exists # logo_exists
          /\ previous.story = story
          /\ previous.placed = placed
          /\ Len(previous.decorations) = Len(decorations)
          /\ previous.response.status = response.status
          /\ pc = "failed" => previous.response = response
          /\ pc = "done" =>
                /\ response.body.success
                /\ response.body.pdf_base64.pages = previous.response.body.pdf_base64.pages
                /\ response.body.pdf_base64.drawn = previous.response.body.pdf_base64.drawn

\* C12 witness: a document of two pages or more generated with the file
\* missing, after the same record gave a success with the file present.
C12_Witness ==
    /\ pc = "done"
    /\ ~logo_exists
    /\ page >= 2
    /\ previous.ran
    /\ previous.response.status = 200
    /\ \A p \in 1..page : Len(decorations[p]) = 4

(***************************************************************************)
(* Properties of the reading of the record.                                *)
(***************************************************************************)

\* A field of the record is absent or null.
HasGap == \E k \in FieldNames : k \notin DOMAIN data \/ data[k] = None

\* The record d with "" in the place of every absent or null field.
AsEmpty(d) ==
    [k \in FieldNames |-> IF k \in DOMAIN d /\ d[k] # None THEN d[k] ELSE <<>>]

\* C13: a record in which fields are absent or null is never answered with
\* a failure, and its block sequence and page decoration are those of the
\* record with "" in the place of each such field.
C13_GapsReadAsEmpty ==
    (pc \in {"build", "done", "failed"} /\ HasGap) =>
        /\ pc # "failed"
        /\ story = BuildStory(AsEmpty(data))
        /\ decorations[1] = DrawDecorations(AsEmpty(data), logo_exists)

(***************************************************************************)
(* Properties of the header table.                                         *)
(***************************************************************************)

\* The cells of the header table of the story: experiment number, title, date.
ExpNoCell == story[1].content[1]

TitleCell == story[1].content[2]

DateCell == story[1].content[3]

\* C14: when the title of the record is absent or the empty string, the
\* title cell of the header table shows the generic label "EXPERIMENT".
C14_TitleFallback ==
    (Built /\ ("title" \notin DOMAIN data \/ data.title = <<>>)) =>
        /\ story[1].type = "Table"
        /\ TitleCell = Paragraph(DefaultTitle, "TCenter")

\* The field is absent, null, empty or made of whitespace only.
IsBlank(field) ==
    \/ IsEmpty(field)
    \/ \A i \in 1..Len(data[field]) : data[field][i] \in Whitespace

Nbsp ==
    <<"&", "n", "b", "s", "p", ";">>

\* t is a run of ten or more non-breaking spaces.
IsPlaceholder(t) ==
    /\ Len(t) >= 10 * Len(Nbsp)
    /\ Len(t) % Len(Nbsp) = 0
    /\ \A i \in 0..(Len(t) \div Len(Nbsp) - 1) :
          SubSeq(t, i * Len(Nbsp) + 1, (i + 1) * Len(Nbsp)) = Nbsp

\* What the date cell shows after its label.
DateShown == SubSeq(DateCell.text, Len(DateLabel) + 1, Len(DateCell.text))

\* C15: the date cell of the header table shows, after its label, a
\* placeholder of ten or more blanks when the date of the record is absent,
\* empty or only whitespace, and otherwise the escaped date text (without the
\* whitespace around it).
C15_DateFallback ==
    Built =>
        /\ story[1].type = "Table"
        /\ HasPrefix(DateCell.text, DateLabel)
        /\ IF IsBlank("date")
           THEN IsPlaceholder(DateShown)
           ELSE DateShown = Strip(safe_text(data.date))

(***************************************************************************)
(* Properties of the escaping of the record's texts.                       *)
(***************************************************************************)

\* The entities html.escape writes, with the characters they stand for.
Entities ==
    { [markup |-> <<"&", "a", "m", "p", ";">>, char |-> "&"],
      [markup |-> <<"&", "l", "t", ";">>, char |-> "<"],
      [markup |-> <<"&", "g", "t", ";">>, char |-> ">"],
      [markup |-> <<"&", "q", "u", "o", "t", ";">>, char |-> "\""],
      [markup |-> <<"&", "#", "x", "2", "7", ";">>, char |-> "'"] }

\* t holds piece at position i.
HoldsAt(t, i, piece) ==
    i >= 1 /\ i + Len(piece) - 1 <= Len(t) /\ SubSeq(t, i, i + Len(piece) - 1) = piece

\* No markup character of t is the user's: t has no newline, every '<' opens
\* and every '>' closes a line break, and every '&' opens an entity.
MarkupSafe(t) ==
    \A i \in 1..Len(t) :
        /\ t[i] # "\n"
        /\ t[i] = "<" => HoldsAt(t, i, Br)
        /\ t[i] = ">" => HoldsAt(t, i - 4, Br)
        /\ t[i] = "&" => \E e \in Entities : HoldsAt(t, i, e.markup)

\* The text that a piece of markup without line breaks displays: the
\* entities read back.
RECURSIVE UnescapeLine(_)
UnescapeLine(t) ==
    IF Len(t) = 0 THEN <<>>
    ELSE IF \E e \in Entities : HoldsAt(t, 1, e.markup)
         THEN LET e == CHOOSE e \in Entities : HoldsAt(t, 1, e.markup)
              IN  <<e.char>> \o UnescapeLine(SubSeq(t, Len(e.markup) + 1, Len(t)))
    ELSE <<Head(t)>> \o UnescapeLine(Tail(t))

\* The text that the markup t displays: its line breaks as newlines and its
\* entities read back.
Unescape(t) ==
    LET pieces == SplitBr(t)
    IN  JoinLines([i \in 1..Len(pieces) |-> UnescapeLine(pieces[i])])

\* t without its first n characters.
Drop(t, n) == SubSeq(t, n + 1, Len(t))

\* The story as it is when doc.build is called.
JustBuilt == pc = "build" /\ flowables = story /\ Len(placed) = 0

\* C16: in every block that carries a text of the record (the cells of the
\* header table, the bodies of aim, algorithm, program, output and result) the
\* user's text is escaped: no newline, no '<' or '>' outside a line break and
\* no '&' outside an entity is left, and the block displays the text of the
\* field, each newline as a line break (the date and the output trimmed,
\* the output without its label, each algorithm step its cleaned line).
C16_UserTextEscaped ==
    JustBuilt =>
        /\ MarkupSafe(Drop(ExpNoCell.text, Len(ExpNoLabel)))
        /\ MarkupSafe(TitleCell.text)
        /\ IsPlaceholder(DateShown) \/ MarkupSafe(DateShown)
        /\ \A i \in 1..Len(Flow) :
              (Flow[i].type = "Paragraph" /\ Flow[i].style # "Heading") =>
                  MarkupSafe(IF HasPrefix(Flow[i].text, Indent)
                             THEN Drop(Flow[i].text, Len(Indent))
                             ELSE Flow[i].text)
        /\ Unescape(Drop(ExpNoCell.text, Len(ExpNoLabel))) = Get(data, "expNo", <<>>)
        /\ ("title" \in DOMAIN data /\ data.title # None)
              => Unescape(TitleCell.text) = data.title
        /\ \/ IsPlaceholder(DateShown)
           \/ Strip(Unescape(DateShown)) = Strip(data.date)
        /\ \A k \in 2..(Len(Steps) - 1) : Unescape(StepText(k)) = processed_lines[k - 1]
        /\ \A sec \in FilledSections :
              \A i \in HeadingAt(sec.heading) :
                  Unescape(Drop(Flow[i + 1].text, Len(sec.prefix))) = SectionText(sec)

MarkupAim ==
    <<"T", "o", " ", "a", "d", "d", " ", "<", "a", ">", " ", "&", " ", "b", "\n", "u", "s",
    "i", "n", "g", " ", "C">>

MarkupOutput ==
    <<"a", "<", "b", "\n", "1", " ", "&", " ", "2">>

\* C16 witness: the story of a record whose aim, program, output and result
\* hold '<', '>', '&', quotes and newlines.
C16_Witness ==
    /\ JustBuilt
    /\ DOMAIN data = FieldNames
    /\ data.aim = MarkupAim
    /\ data.program = MarkupProgram
    /\ data.output = MarkupOutput
    /\ data.result = MarkupResult

(***************************************************************************)
(* Properties of the answer.                                               *)
(***************************************************************************)

\* The lines of text of the paragraphs and table cells of blocks, in order.
RECURSIVE TextLinesOf(_)
TextLinesOf(blocks) ==
    IF Len(blocks) = 0 THEN <<>>
    ELSE LET f == Head(blocks)
         IN  (CASE f.type = "Paragraph" -> SplitBr(f.text)
                [] f.type = "Table" -> TextLinesOf(f.content)
                [] OTHER -> <<>>)
                 \o TextLinesOf(Tail(blocks))

\* The blocks that were drawn, in the order of drawing.
DrawnBlocks == [i \in 1..Len(placed) |-> placed[i].block]

\* C17: no answer is given before the handler ends; it ends either with
\* status 200 and a body of exactly success = true and the document, which
\* then holds every line of every block of the story on decorated pages, or
\* with status 500 and a body of exactly a non-empty error text; an error
\* raised while the blocks are built or while the pages are laid out gives the
\* second answer, and no answer holds both an error and document bytes.
C17_AllOrNothing ==
    /\ pc \in {"idle", "build"} => response = NoResponse
    /\ pc = "done" =>
          /\ response.status = 200
          /\ DOMAIN response.body = {"success", "pdf_base64"}
          /\ response.body.success = TRUE
          /\ response.body.pdf_base64.drawn = placed
          /\ response.body.pdf_base64.pages = Len(decorations)
          /\ Len(flowables) = 0
          /\ TextLinesOf(DrawnBlocks) = TextLinesOf(Flow)
    /\ pc = "failed" =>
          /\ response.status = 500
          /\ DOMAIN response.body = {"error"}
          /\ response.body.error # ""
    /\ (pc # "idle" /\ BuildRaises(data)) =>
          pc = "failed" /\ Len(story) = 0 /\ Len(placed) = 0
    /\ pc \in {"done", "failed"} <=> response # NoResponse

\* C17 witness: the layout failed after blocks had been drawn on two pages,
\* and the answer is the error alone.
C17_Witness ==
    /\ pc = "failed"
    /\ Len(placed) > 0
    /\ page >= 2
    /\ response = [status |-> 500, body |-> [error |-> LayoutMessage]]

(***************************************************************************)
(* Properties of the result that does not fit on the current page.         *)
(***************************************************************************)

\* The spacer did not fit where it was first reached: it was put back for
\* the next page.
SpacerPostponed ==
    \/ \E i \in 1..Len(placed) :
          placed[i].block.type = "PushToBottomSpacer" /\ placed[i].block.postponed
    \/ /\ Len(flowables) > 0
       /\ Head(flowables).type = "PushToBottomSpacer"
       /\ Head(flowables).postponed

\* C18: when the spacer reported more than the space left and the page was
\* broken, the document is finished with the spacer measured again and
\* placed on the next page, and the heading and the whole body of the result
\* drawn under it on that page, the body ending at the bottom of the frame
\* (within the spacer's buffer of it), whatever the length of the result.
C18_PostponedResultPinnedOnNextPage ==
    (pc \in {"done", "failed"} /\ SpacerPostponed) =>
        /\ pc = "done"
        /\ \E i \in 1..Len(placed) :
              /\ placed[i].block.type = "PushToBottomSpacer"
              /\ \A j \in 1..(i - 1) : placed[j].page < placed[i].page
              /\ \E h \in DrawnAt(ResultBlock(data)[1]) :
                    h > i /\ placed[h].page = placed[i].page
              /\ \E b \in DrawnAt(ResultBlock(data)[2]) :
                    /\ b > i
                    /\ placed[b].page = placed[i].page
                    /\ placed[b].bottom <= SafetyMargin

(***************************************************************************)
(* Properties of the step labels.                                          *)
(***************************************************************************)

\* Length of the leading label of line when the separator is optional:
\* "step" in any letter case, a number, at most one of ':', '-', '.', and
\* the whitespace around them; 0 when line has no such label.
OptionalSeparatorLabelLen(line) ==
    LET afterStep == SkipWhile(line, 5, Whitespace)
        afterNum == SkipWhile(line, afterStep, Digits)
        sepAt == SkipWhile(line, afterNum, Whitespace)
        afterSep == IF sepAt <= Len(line) /\ line[sepAt] \in Separators
                    THEN sepAt + 1 ELSE sepAt
        rest == SkipWhile(line, afterSep, Whitespace)
    IN  IF /\ Len(line) >= 4
           /\ Lower(SubSeq(line, 1, 4)) = StepWord
           /\ afterNum > afterStep
        THEN rest - 1
        ELSE 0

\* C19: every non-blank line loses its leading "Step <number>" label, in any
\* letter case, with or without one of the separators ':', '-', '.' after
\* it: what is left of the line, trimmed, is a kept line unless it is empty
\* or boilerplate.
C19_LabelStrippedWithoutSeparator ==
    Normalized =>
        \A l \in Range(SplitLines(AlgRaw)) :
            LET line == Strip(l)
                t == Strip(Drop(line, OptionalSeparatorLabelLen(line)))
            IN  \/ Len(t) = 0
                \/ IsBoilerplate(t)
                \/ \E i \in 1..Len(processed_lines) : processed_lines[i] = t

(***************************************************************************)
(* Properties of the order of the story.                                   *)
(***************************************************************************)

IsHeading(f) == f.type = "Paragraph" /\ f.style = "Heading"

IsBody(f) == f.type = "Paragraph" /\ f.style \in {"Body", "TurboC"}

\* The sections in their fixed order, the algorithm among them.
SectionOrder ==
    << [field |-> "aim", heading |-> AimHeading],
       [field |-> "algorithm", heading |-> AlgorithmHeading],
       [field |-> "program", heading |-> ProgramHeading],
       [field |-> "output", heading |-> OutputHeading],
       [field |-> "result", heading |-> ResultHeading] >>

\* The section is in the story: the algorithm always, the others when their
\* field is not empty.
IsPresent(sec) == sec.field = "algorithm" \/ ~IsEmpty(sec.field)

\* The heading and the body of the result.
ResultPair ==
    << Paragraph(ResultHeading, "Heading"),
       Paragraph(Indent \o safe_text(data.result), "Body") >>

\* C20: the story is the header table, the fixed spacer, then the sections
\* present in the order aim, algorithm, program, output, result, each a
\* heading directly followed by its body (the program pair possibly inside a
\* KeepTogether); the bottom-pin spacer is in the story exactly when result
\* is not empty, as the last element but one, directly before the
\* KeepTogether of the result pair, which is the last; the spacer draws
\* nothing and the result heading and body are drawn once.
C20_FixedOrder ==
    Built =>
        /\ story[1].type = "Table"
        /\ story[2] = Spacer(Inch \div 5)
        /\ LET headings == SelectSeq(Flow, IsHeading)
               present == SelectSeq(SectionOrder, IsPresent)
           IN  /\ Len(headings) = Len(present)
               /\ \A i \in 1..Len(present) : headings[i].text = present[i].heading
        /\ \A i \in 3..Len(Flow) :
              /\ IsHeading(Flow[i]) \/ IsBody(Flow[i]) \/ Flow[i].type = "PushToBottomSpacer"
              /\ IsHeading(Flow[i]) => (i < Len(Flow) /\ IsBody(Flow[i + 1]))
              /\ IsBody(Flow[i]) => IsHeading(Flow[i - 1])
        /\ \A i \in BlocksOfType("KeepTogether") :
              story[i].content[1].text \in {ProgramHeading, ResultHeading}
        /\ IF IsEmpty("result")
           THEN BlocksOfType("PushToBottomSpacer") = {}
           ELSE /\ BlocksOfType("PushToBottomSpacer") = {Len(story) - 1}
                /\ story[Len(story) - 1].content = ResultPair
                /\ story[Len(story)] = KeepTogether(ResultPair)
        /\ \A i \in 1..Len(placed) :
              placed[i].block.type = "PushToBottomSpacer" => placed[i].drawn = <<>>
        /\ (pc = "done" /\ ~IsEmpty("result")) =>
              /\ Cardinality(DrawnAt(ResultPair[1])) = 1
              /\ Cardinality({i \in 1..Len(placed) :
                                  placed[i].drawn = << ResultPair[1].text >>}) = 1
              /\ Cardinality({i \in 1..Len(placed) :
                                  placed[i].drawn = << ResultPair[2].text >>}) = 1

\* C20 witness: the finished document of a record with all five sections,
\* the spacer drawn on a page before the result.
C20_Witness ==
    /\ pc = "done"
    /\ FilledSections = Sections
    /\ \E i \in 1..Len(placed) : placed[i].block.type = "PushToBottomSpacer"

(***************************************************************************)
(* Properties of the decoration of every page.                             *)
(***************************************************************************)

\* What the f-string of a header field shows: the field's text, "None" for
\* null, nothing for an absent field.
FieldShown(field) ==
    IF field \notin DOMAIN data THEN <<>>
    ELSE IF data[field] = None THEN <<"N", "o", "n", "e">>
    ELSE data[field]

\* The chrome of a page of the record: the name at the left, the register
\* number at the right, the border, the footer, and the watermark when the
\* file is there.
Chrome ==
    << [op |-> "drawString",
        text |-> <<"N", "a", "m", "e", " ", ":", " ">> \o FieldShown("name")],
       [op |-> "drawRightString",
        text |-> <<"R", "e", "g", " ", "n", "o", " ", ":", " ">> \o FieldShown("regNo")],
       [op |-> "rect", text |-> <<>>],
       [op |-> "drawRightString", text |-> FooterText] >>
        \o (IF logo_exists THEN << [op |-> "drawImage", text |-> <<>>] >> ELSE <<>>)

\* C21: at every moment of the render pass the decorator has run once for
\* each page begun so far, the first included, and on every page it drew
\* the same chrome, the one given by the record's name and register number
\* and by the presence of the watermark file, whatever the page's number and
\* whatever was drawn in the page's frame; the same record posted again gets
\* the same name, register number, border and footer on as many pages.
C21_DecoratedOncePerPage ==
    /\ Len(decorations) = page
    /\ pc \in {"build", "done"} => page >= 1
    /\ \A p \in 1..Len(decorations) : decorations[p] = Chrome
    /\ \A i \in 1..Len(placed) : placed[i].page \in 1..Len(decorations)
    /\ (previous.ran /\ pc \in {"done", "failed"}) =>
          /\ Len(previous.decorations) = Len(decorations)
          /\ \A p \in 1..Len(decorations) :
                SubSeq(previous.decorations[p], 1, 4) = SubSeq(Chrome, 1, 4)

\* C21 witness: a finished document of three pages whose pages hold
\* different blocks, each page with the chrome of a record that has a name.
C21_Witness ==
    /\ pc = "done"
    /\ page >= 3
    /\ "name" \in DOMAIN data
    /\ data.name \notin {None, <<>>}
    /\ Len(decorations) = page
    /\ \E i, j \in 1..Len(placed) :
          /\ placed[i].page = 1
          /\ placed[j].page = page
          /\ placed[i].block.type = "Table"
          /\ placed[j].block.type = "Paragraph"

(***************************************************************************)
(* Properties of two requests in service at once.                          *)
(***************************************************************************)

\* The calls have answered and the record of one of them has been answered
\* again with no other request in service.
AnsweredAlone ==
    /\ suspended.phase = "alone"
    /\ pc \in {"done", "failed"}

\* C22: for any two records and any interleaving of the steps of their two
\* calls, what each call produced (its block list, the blocks drawn and
\* the pages they were drawn on, the decorations, and its answer, success
\* with the document or failure with the error) is what the same record
\* produces when it is posted with no other request in service; and while
\* the calls run, the block list of the running call is the one built from
\* its own record.
C22_ConcurrentRequestsIndependent ==
    /\ AnsweredAlone =>
          LET o == suspended.outcomes[suspended.self]
          IN  /\ o.data = data
              /\ o.story = story
              /\ o.placed = placed
              /\ o.decorations = decorations
              /\ o.response = response
    /\ (suspended.phase = "pair" /\ pc \in {"build", "done"}) =>
          /\ TitleCell.text = safe_text(data.title)
          /\ LET headings == SelectSeq(Flow, IsHeading)
                 present == SelectSeq(SectionOrder, IsPresent)
             IN  /\ Len(headings) = Len(present)
                 /\ \A i \in 1..Len(present) : headings[i].text = present[i].heading
          /\ ~IsEmpty("result") => story[Len(story)].content = ResultPair
          /\ \A i \in 1..Len(placed) :
                \E j \in 1..Len(story) :
                    \/ story[j] = [placed[i].block EXCEPT !.postponed = FALSE]
                    \/ /\ story[j].type = "KeepTogether"
                       /\ \E k \in 1..Len(story[j].content) :
                             /\ story[j].content[k].style = placed[i].block.style
                             /\ story[j].content[k].type = placed[i].block.type
                    \/ /\ story[j].type = "Paragraph"
                       /\ story[j].type = placed[i].block.type
                       /\ story[j].style = placed[i].block.style

\* C22 witness: two different records were in service at once, the calls
\* were switched while both were inside doc.build, one call ended in a
\* success on two pages or more and the other in a failure, and the record
\* of the second call has been answered again alone.
C22_Witness ==
    /\ AnsweredAlone
    /\ suspended.overlapped
    /\ suspended.self = 2
    /\ suspended.outcomes[1].data # suspended.outcomes[2].data
    /\ suspended.outcomes[1].response.status = 200
    /\ suspended.outcomes[2].response.status = 500
    /\ Len(suspended.outcomes[1].decorations) >= 2

(***************************************************************************)
(* Properties of the room the spacer leaves.                               *)
(***************************************************************************)

\* The spacer is the last flowable drawn and the result group is the next
\* to be added to the frame.
SpacerJustPlaced ==
    /\ pc = "build"
    /\ Len(placed) > 0
    /\ placed[Len(placed)].block.type = "PushToBottomSpacer"
    /\ Len(flowables) > 0
    /\ Head(flowables).type = "KeepTogether"

\* The height the result group takes in the frame under the spacer: the
\* space before its heading, the heading, the space between heading and
\* body, and the body.
GroupConsumes ==
    GapAbove(Head(flowables)) + ListHeight(Head(flowables).content, TRUE, 0)

\* C23: when the spacer has been placed, the height left in the frame under
\* it is at least what the result group takes there, the heading's space
\* before and the space between heading and body included; and the heading
\* of the result is never drawn on a later page than the spacer.
C23_SpacerLeavesRoomForGroup ==
    /\ SpacerJustPlaced => frameLeft >= GroupConsumes
    /\ \A i \in 1..Len(placed) :
          placed[i].block.type = "PushToBottomSpacer" =>
              \A h \in DrawnAt(ResultPair[1]) :
                  h > i => placed[h].page = placed[i].page

(***************************************************************************)
(* Properties of the end of the render pass.                               *)
(***************************************************************************)

\* The spacer that was rejected on one page is the next flowable.
SpacerRejected ==
    /\ pc = "build"
    /\ Len(flowables) > 0
    /\ Head(flowables).type = "PushToBottomSpacer"
    /\ Head(flowables).postponed

\* A step from a state where the rejected spacer is next either draws it on
\* the page it was moved to or ends the pass with the failure; it does not
\* begin another page.
RejectedSpacerSettled ==
    SpacerRejected =>
        /\ page' = page
        /\ \/ /\ Len(placed') = Len(placed) + 1
              /\ placed'[Len(placed')].block = Head(flowables)
              /\ placed'[Len(placed')].page = page
           \/ /\ pc' = "failed"
              /\ response'.status = 500

\* The result block needs more than the frame of an empty page: the spacer
\* reports more than the available height on every page.
ResultTallerThanPage ==
    /\ ~IsEmpty("result")
    /\ MeasuredSum(ResultPair) + Inch \div 20 > FrameHeight

\* C24: every render pass ends, with the document or with the failure
\* answer; the spacer that was rejected on a page is drawn on the next page
\* or fails there, it is never rejected on a second page; and a pass whose
\* result block needs more than an empty page never ends with a document,
\* it ends with the failure answer, after at most one page break made for
\* the spacer.
C24_RenderPassTerminates ==
    /\ [][RejectedSpacerSettled]_vars
    /\ [](ResultTallerThanPage => pc # "done")
    /\ [](pc = "build" => <>(pc \in {"done", "failed"}))
    /\ []((pc = "build" /\ ResultTallerThanPage)
            => <>(pc = "failed" /\ response.status = 500))

\* C24 witness: the pass of a record whose result is taller than a page has
\* ended with the failure answer, the spacer rejected on the first page and
\* again on the empty second page.
C24_Witness ==
    /\ pc = "failed"
    /\ ResultTallerThanPage
    /\ response = [status |-> 500, body |-> [error |-> LayoutMessage]]
    /\ page = 2
    /\ atTop
    /\ Len(flowables) > 0
    /\ Head(flowables).type = "PushToBottomSpacer"
    /\ Head(flowables).postponed

(***************************************************************************)
(* Properties of output texts that have no label.                          *)
(***************************************************************************)

\* The characters of a word.
WordChars == Range(UpperAlphabet) \cup Range(LowerAlphabet) \cup Digits

\* The first word of t: its longest prefix of letters and digits.
FirstWord(t) ==
    LET n == CHOOSE n \in 0..Len(t) :
                 /\ \A i \in 1..n : t[i] \in WordChars
                 /\ n < Len(t) => t[n + 1] \notin WordChars
    IN  SubSeq(t, 1, n)

\* C25: when the first word of the trimmed output is not the word "output"
\* by itself (it is another word, one that only begins with "output", or
\* there is none), the body of the output section is the escaped trimmed
\* output, nothing removed.
C25_OnlyStandaloneLabelStripped ==
    (Built /\ ~IsEmpty("output") /\ Lower(FirstWord(OutRaw)) # OutputWord) =>
        \A i \in HeadingAt(OutputHeading) :
            /\ i < Len(Flow)
            /\ Flow[i + 1].text = safe_text(OutRaw)

====
